---- MODULE Spec2Model ----
(***************************************************************************)
(* bevy-egui-kbgp: keyboard/gamepad navigation for egui.                   *)
(*                                                                         *)
(* The model follows src/src/lib.rs, src/src/navigation.rs and             *)
(* src/src/pending_input.rs.  One step of the model is one call of a       *)
(* public function of the crate (kbgp_prepare, an extension method of a    *)
(* widget's Response or of the Context) or one change of the focus made by *)
(* egui itself.                                                            *)
(*                                                                         *)
(* Conventions                                                             *)
(*   Option<T>      None is <<>>, Some(x) is <<x>>.                        *)
(*   egui::Id       a positive integer.                                    *)
(*   u8 bit mask    the set of its bits (INPUT_MASK_UP .. _USER_ACTION);   *)
(*                  a | b is the union, a & b the intersection and         *)
(*                  a & !b the difference.                                 *)
(*   time           integer ticks of 0.02 s (0.6 s = 30, 0.04 s = 2).      *)
(*   KbgpInput      <<variant, code, entity>>, entity 0 when the variant   *)
(*                  carries no gamepad entity.                             *)
(*   Box<dyn Any>   <<type name, value>>.                                  *)
(***************************************************************************)
EXTENDS Integers, Sequences, FiniteSets, TLC

-----------------------------------------------------------------------------
(* Option *)

None == <<>>

Some(x) == <<x>>

IsSome(o) == o # <<>>

Unwrap(o) == o[1]

\* Option::or
OptionOr(a, b) == IF IsSome(a) THEN a ELSE b

-----------------------------------------------------------------------------
(* Bounds of the model *)

\* Largest value of egui's clock (ticks) at which kbgp_prepare is still called,
\* in the navigation specification and in the registry specification.
MaxTime == 60

\* The same in the timing specification, whose frames are as short as a tick.
MaxTimingTime == 36

\* The same in the capture specification, whose frames are all one tick long.
MaxFrames == 3

\* The same in the focus-label specification: a label set in one frame is
\* pending in the next and gone after the second kbgp_prepare.
MaxLabelFrames == 2

\* The same in the loss-of-focus specification: the focus is lost, asked back
\* and lost again.
MaxFocusFrames == 2

\* Number of widgets.
MaxNodes == 2

\* Largest coordinate of a rectangle's top and bottom in the resolver
\* specification.
MaxY == 3

\* the pulses of one value of the command mask are counted up to MaxPulses
MaxPulses == 3

\* The widgets of the grid specification lie on the points 0..MaxCell of both
\* axes.
MaxCell == 4

\* kbgp_prepare runs at most MaxRebindFrames times in the rebinding
\* specification.
MaxRebindFrames == 4

-----------------------------------------------------------------------------
(* navigation.rs: bit masks *)

INPUT_MASK_UP == 1

INPUT_MASK_DOWN == 2

INPUT_MASK_VERTICAL == {INPUT_MASK_UP, INPUT_MASK_DOWN}

INPUT_MASK_LEFT == 4

INPUT_MASK_RIGHT == 8

INPUT_MASK_HORIZONTAL == {INPUT_MASK_LEFT, INPUT_MASK_RIGHT}

INPUT_MASK_CLICK == 16

INPUT_MASK_USER_ACTION == 32

\* handle.input & (INPUT_MASK_CLICK | INPUT_MASK_USER_ACTION)
ActivationBits(input) == input \cap {INPUT_MASK_CLICK, INPUT_MASK_USER_ACTION}

\* KbgpPrepareNavigation defaults, in ticks of 0.02 s.
secs_after_first_input == 30

secs_between_inputs == 2

-----------------------------------------------------------------------------
(* lib.rs: KbgpInput and KbgpInputSource *)

Keyboard(key) == <<"Keyboard", key, 0>>

MouseButton(button) == <<"MouseButton", button, 0>>

MouseWheelUp == <<"MouseWheelUp", "", 0>>

MouseWheelDown == <<"MouseWheelDown", "", 0>>

MouseWheelLeft == <<"MouseWheelLeft", "", 0>>

MouseWheelRight == <<"MouseWheelRight", "", 0>>

GamepadAxisPositive(entity, axis) == <<"GamepadAxisPositive", axis, entity>>

GamepadAxisNegative(entity, axis) == <<"GamepadAxisNegative", axis, entity>>

GamepadButton(entity, button) == <<"GamepadButton", button, entity>>

KeyboardAndMouse == <<"KeyboardAndMouse", 0>>

Gamepad(entity) == <<"Gamepad", entity>>

\* KbgpInput::get_source
get_source(input) ==
    IF input[1] \in {"GamepadAxisPositive", "GamepadAxisNegative", "GamepadButton"}
    THEN Gamepad(input[3])
    ELSE KeyboardAndMouse

\* The input that process_new_input removes when `input` is added, if any.
OppositeOf(input) ==
    CASE input[1] = "GamepadAxisPositive" -> {GamepadAxisNegative(input[3], input[2])}
      [] input[1] = "GamepadAxisNegative" -> {GamepadAxisPositive(input[3], input[2])}
      [] input[1] = "MouseWheelUp" -> {MouseWheelDown}
      [] input[1] = "MouseWheelDown" -> {MouseWheelUp}
      [] input[1] = "MouseWheelLeft" -> {MouseWheelRight}
      [] input[1] = "MouseWheelRight" -> {MouseWheelLeft}
      [] OTHER -> {}

\* What the devices can report in one frame: a gamepad axis has one value, so
\* it is never beyond +0.5 and beyond -0.5 at once.
Consistent(pressed) ==
    \A i \in pressed :
        i[1] = "GamepadAxisPositive" => GamepadAxisNegative(i[3], i[2]) \notin pressed

-----------------------------------------------------------------------------
(* navigation.rs: KbgpNavCommand and KbgpNavBindings; lib.rs: KbgpSettings *)

NavigateUp == <<"NavigateUp", None>>

NavigateDown == <<"NavigateDown", None>>

NavigateLeft == <<"NavigateLeft", None>>

NavigateRight == <<"NavigateRight", None>>

Click == <<"Click", None>>

\* KbgpNavCommand::user(value): a closure that boxes a clone of the value.
User(type, value) == <<"User", Some(<<type, value>>)>>

\* KbgpSettings::default(), without the bindings.
DefaultSettings ==
    [disable_default_navigation |-> FALSE,
     disable_default_activation |-> FALSE,
     prevent_loss_of_focus |-> FALSE,
     focus_on_mouse_movement |-> FALSE,
     allow_keyboard |-> TRUE,
     allow_mouse_buttons |-> TRUE,
     allow_mouse_wheel |-> FALSE,
     allow_mouse_wheel_sideways |-> FALSE,
     allow_gamepads |-> TRUE]

\* The settings of examples/example.rs that keep a widget focused.
PreventLossSettings == [DefaultSettings EXCEPT !.prevent_loss_of_focus = TRUE]

\* The default settings with the mouse wheel accepted for chords, as
\* examples/example.rs sets allow_mouse_wheel and allow_mouse_wheel_sideways.
WheelSettings ==
    [DefaultSettings EXCEPT !.allow_mouse_wheel = TRUE, !.allow_mouse_wheel_sideways = TRUE]

\* bindings.keyboard: KbgpNavBindings::default() with the two user actions of
\* examples/example_enter_and_exit_menu.rs bound to KeyZ and KeyQ.
KeyboardBinding(key) ==
    CASE key = "ArrowUp" -> Some(NavigateUp)
      [] key = "ArrowDown" -> Some(NavigateDown)
      [] key = "ArrowLeft" -> Some(NavigateLeft)
      [] key = "ArrowRight" -> Some(NavigateRight)
      [] key = "KeyZ" -> Some(User("KbgpActions", "ActionZ"))
      [] key = "KeyQ" -> Some(User("KbgpActions", "ToggleMenuQ"))
      [] OTHER -> None

\* bindings.gamepad_buttons: KbgpNavBindings::default()
GamepadButtonBinding(button) ==
    CASE button = "DPadUp" -> Some(NavigateUp)
      [] button = "DPadDown" -> Some(NavigateDown)
      [] button = "DPadLeft" -> Some(NavigateLeft)
      [] button = "DPadRight" -> Some(NavigateRight)
      [] button = "South" -> Some(Click)
      [] OTHER -> None

\* KbgpPrepareNavigation::apply_action: the bit a command sets in handle.input.
apply_action(command) ==
    CASE command[1] = "NavigateUp" -> INPUT_MASK_UP
      [] command[1] = "NavigateDown" -> INPUT_MASK_DOWN
      [] command[1] = "NavigateLeft" -> INPUT_MASK_LEFT
      [] command[1] = "NavigateRight" -> INPUT_MASK_RIGHT
      [] command[1] = "Click" -> INPUT_MASK_CLICK
      [] command[1] = "User" -> INPUT_MASK_USER_ACTION

\* The commands navigate_keyboard_by_binding applies for the pressed keys.
KeyboardCommands(pressed) ==
    {Unwrap(KeyboardBinding(i[2])) :
        i \in {j \in pressed : j[1] = "Keyboard" /\ IsSome(KeyboardBinding(j[2]))}}

\* The commands navigate_gamepad_by_binding applies: the left stick is hard
\* wired to the four directions, the buttons go through the binding.
GamepadCommands(pressed) ==
    {NavigateLeft : i \in {j \in pressed : j[1] = "GamepadAxisNegative" /\ j[2] = "LeftStickX"}}
    \cup {NavigateRight : i \in {j \in pressed : j[1] = "GamepadAxisPositive" /\ j[2] = "LeftStickX"}}
    \cup {NavigateDown : i \in {j \in pressed : j[1] = "GamepadAxisNegative" /\ j[2] = "LeftStickY"}}
    \cup {NavigateUp : i \in {j \in pressed : j[1] = "GamepadAxisPositive" /\ j[2] = "LeftStickY"}}
    \cup {Unwrap(GamepadButtonBinding(i[2])) :
            i \in {j \in pressed : j[1] = "GamepadButton" /\ IsSome(GamepadButtonBinding(j[2]))}}

\* navigate_keyboard_by_binding's last statement: with mimic_default_activation
\* Enter, NumpadEnter and Space set the click bit.
MimicDefaultActivation(pressed, mimic_default_activation) ==
    IF mimic_default_activation
       /\ \E key \in {"Enter", "NumpadEnter", "Space"} : Keyboard(key) \in pressed
    THEN {INPUT_MASK_CLICK}
    ELSE {}

\* handle.input after the prepare_dlg of kbgp_system_default_input.
HandleInput(settings, pressed) ==
    (IF settings.allow_keyboard
     THEN {apply_action(c) : c \in KeyboardCommands(pressed)}
          \cup MimicDefaultActivation(pressed, ~settings.disable_default_activation)
     ELSE {})
    \cup (IF settings.allow_gamepads
          THEN {apply_action(c) : c \in GamepadCommands(pressed)}
          ELSE {})

\* The values handle.user_action can have after the prepare_dlg: the payload of
\* the User command applied last.  The keys are visited in the order of a hash
\* set, then the gamepads, so a gamepad's User command overrides the keyboard's.
HandleUserAction(settings, pressed) ==
    LET fromKeys == {c[2] : c \in {d \in (IF settings.allow_keyboard
                                          THEN KeyboardCommands(pressed) ELSE {}) :
                                      d[1] = "User"}}
        fromPads == {c[2] : c \in {d \in (IF settings.allow_gamepads
                                          THEN GamepadCommands(pressed) ELSE {}) :
                                      d[1] = "User"}}
    IN  IF fromPads # {} THEN fromPads
        ELSE IF fromKeys # {} THEN fromKeys
        ELSE {None}

-----------------------------------------------------------------------------
(* egui geometry *)

Pos2(x, y) == [x |-> x, y |-> y]

Rect(min, max) == [min |-> min, max |-> max]

\* The closures, were those of Left and Right exchanged.
transform_pos_downward_Exchanged(dir, p) ==
    CASE dir = INPUT_MASK_UP -> Pos2(-p.x, -p.y)
      [] dir = INPUT_MASK_DOWN -> p
      [] dir = INPUT_MASK_LEFT -> Pos2(p.y, p.x)
      [] dir = INPUT_MASK_RIGHT -> Pos2(-p.y, -p.x)

\* The closures prepare passes to move_focus as transform_pos_downward.
transform_pos_downward(dir, p) ==
    CASE dir = INPUT_MASK_UP -> Pos2(-p.x, -p.y)
      [] dir = INPUT_MASK_DOWN -> p
      [] dir = INPUT_MASK_LEFT -> Pos2(-p.y, -p.x)
      [] dir = INPUT_MASK_RIGHT -> Pos2(p.y, p.x)

\* move_focus: transform_rect_downward
transform_rect_downward(dir, rect) ==
    LET a == transform_pos_downward(dir, rect.min)
        b == transform_pos_downward(dir, rect.max)
        left == IF b.x < a.x THEN b.x ELSE a.x
        right == IF b.x < a.x THEN a.x ELSE b.x
        top == IF b.y < a.y THEN b.y ELSE a.y
        bottom == IF b.y < a.y THEN a.y ELSE b.y
    IN  Rect(Pos2(left, top), Pos2(right, bottom))

\* move_focus: the InfoForComparison of a candidate rectangle.
InfoForComparison(focused_node_rect, rect) ==
    [min_y |-> rect.min.y - focused_node_rect.max.y,
     max_y |-> rect.max.y - focused_node_rect.max.y,
     x_drift |-> IF focused_node_rect.max.x < rect.min.x
                 THEN rect.max.x - focused_node_rect.min.x
                 ELSE IF rect.max.x < focused_node_rect.min.x
                      THEN focused_node_rect.max.x - rect.min.x
                      ELSE 0]

\* The closure, were its x_drift arm taken when either span ends before the
\* other begins.
InfoGreater_EitherApart(a, b) ==
    IF a.max_y < b.min_y \/ b.max_y < a.min_y
    THEN a.x_drift > b.x_drift
    ELSE (a.min_y + a.x_drift) > (b.min_y + b.x_drift)

\* The closure, were the comparison made the other way round.
InfoGreater_Reversed(a, b) ==
    IF a.max_y < b.min_y /\ b.max_y < a.min_y
    THEN a.x_drift < b.x_drift
    ELSE (a.min_y + a.x_drift) < (b.min_y + b.x_drift)

\* move_focus: the closure given to min_by when a node is focused; TRUE when
\* the comparison of a with b is Ordering::Greater.
InfoGreater(a, b) ==
    IF a.max_y < b.min_y /\ b.max_y < a.min_y
    THEN a.x_drift > b.x_drift
    ELSE (a.min_y + a.x_drift) > (b.min_y + b.x_drift)

\* The comparison, were the pairs (min.x, min.y).
KeyGreater_LeftFirst(a, b) == a[2] > b[2] \/ (a[2] = b[2] /\ a[1] > b[1])

\* move_focus: partial_cmp of the (min.y, min.x) pairs is Ordering::Greater.
KeyGreater(a, b) == a[1] > b[1] \/ (a[1] = b[1] /\ a[2] > b[2])

\* Iterator::min_by over candidates[i..] of <<id, info>> pairs, acc being the
\* minimum so far: a later element wins only when acc compares Greater.
RECURSIVE MinByInfo(_, _, _)
MinByInfo(candidates, i, acc) ==
    IF i > Len(candidates) THEN acc
    ELSE MinByInfo(candidates, i + 1,
                   IF InfoGreater(acc[2], candidates[i][2]) THEN candidates[i] ELSE acc)

RECURSIVE MinByKey(_, _, _)
MinByKey(candidates, i, acc) ==
    IF i > Len(candidates) THEN acc
    ELSE MinByKey(candidates, i + 1,
                  IF KeyGreater(acc[2], candidates[i][2]) THEN candidates[i] ELSE acc)

\* The elements of a sequence that satisfy Keep, in order (Iterator::filter).
RECURSIVE FilterIds(_, _, _, _)
FilterIds(order, i, keep, out) ==
    IF i > Len(order) THEN out
    ELSE FilterIds(order, i + 1, keep,
                   IF order[i] \in keep THEN Append(out, order[i]) ELSE out)

\* The orders in which a hash map or hash set with these keys can be iterated.
IterationOrders(keys) ==
    {o \in [1..Cardinality(keys) -> keys] : \A k \in keys : \E i \in DOMAIN o : o[i] = k}

\* move_focus, were a focused id that is not registered taken as no focus.
move_focus_StaleAsNone(nodes, order, ctx_focused, move_from, dir) ==
    LET focused_node_id == OptionOr(move_from, ctx_focused)
    IN  IF IsSome(focused_node_id) /\ Unwrap(focused_node_id) \in DOMAIN nodes
        THEN LET f == Unwrap(focused_node_id)
                 focused_node_rect == transform_rect_downward(dir, nodes[f].rect)
                 keep == {id \in DOMAIN nodes :
                             /\ id # f
                             /\ ~(transform_rect_downward(dir, nodes[id].rect).min.y
                                    - focused_node_rect.max.y < 0)}
                 ids == FilterIds(order, 1, keep, <<>>)
                 candidates ==
                     [i \in DOMAIN ids |->
                         <<ids[i],
                           InfoForComparison(focused_node_rect,
                               transform_rect_downward(dir, nodes[ids[i]].rect))>>]
             IN  IF Len(candidates) = 0 THEN None
                 ELSE Some(MinByInfo(candidates, 2, candidates[1])[1])
        ELSE LET candidates ==
                     [i \in DOMAIN order |->
                         LET r == transform_rect_downward(dir, nodes[order[i]].rect)
                         IN  <<order[i], <<r.min.y, r.min.x>>>>]
             IN  IF Len(candidates) = 0 THEN None
                 ELSE Some(MinByKey(candidates, 2, candidates[1])[1])

\* move_focus, were the widgets that start before the focused one ends kept.
move_focus_NoFilter(nodes, order, ctx_focused, move_from, dir) ==
    LET focused_node_id == OptionOr(move_from, ctx_focused)
    IN  IF IsSome(focused_node_id)
        THEN LET f == Unwrap(focused_node_id)
             IN  IF f \notin DOMAIN nodes
                 THEN Some(f)
                 ELSE LET focused_node_rect == transform_rect_downward(dir, nodes[f].rect)
                          ids == FilterIds(order, 1, DOMAIN nodes \ {f}, <<>>)
                          candidates ==
                              [i \in DOMAIN ids |->
                                  <<ids[i],
                                    InfoForComparison(focused_node_rect,
                                        transform_rect_downward(dir, nodes[ids[i]].rect))>>]
                      IN  IF Len(candidates) = 0 THEN None
                          ELSE Some(MinByInfo(candidates, 2, candidates[1])[1])
        ELSE LET candidates ==
                     [i \in DOMAIN order |->
                         LET r == transform_rect_downward(dir, nodes[order[i]].rect)
                         IN  <<order[i], <<r.min.y, r.min.x>>>>]
             IN  IF Len(candidates) = 0 THEN None
                 ELSE Some(MinByKey(candidates, 2, candidates[1])[1])

\* KbgpNavigationState::move_focus.  nodes is common.nodes, order the order in
\* which the hash map is iterated, ctx_focused is memory.focused().
move_focus(nodes, order, ctx_focused, move_from, dir) ==
    LET focused_node_id == OptionOr(move_from, ctx_focused)
    IN  IF IsSome(focused_node_id)
        THEN LET f == Unwrap(focused_node_id)
             IN  IF f \notin DOMAIN nodes
                 THEN Some(f)
                 ELSE LET focused_node_rect == transform_rect_downward(dir, nodes[f].rect)
                          keep == {id \in DOMAIN nodes :
                                      /\ id # f
                                      /\ ~(transform_rect_downward(dir, nodes[id].rect).min.y
                                             - focused_node_rect.max.y < 0)}
                          ids == FilterIds(order, 1, keep, <<>>)
                          candidates ==
                              [i \in DOMAIN ids |->
                                  <<ids[i],
                                    InfoForComparison(focused_node_rect,
                                        transform_rect_downward(dir, nodes[ids[i]].rect))>>]
                      IN  IF Len(candidates) = 0 THEN None
                          ELSE Some(MinByInfo(candidates, 2, candidates[1])[1])
        ELSE LET candidates ==
                     [i \in DOMAIN order |->
                         LET r == transform_rect_downward(dir, nodes[order[i]].rect)
                         IN  <<order[i], <<r.min.y, r.min.x>>>>]
             IN  IF Len(candidates) = 0 THEN None
                 ELSE Some(MinByKey(candidates, 2, candidates[1])[1])

-----------------------------------------------------------------------------
(* lib.rs: the node registry, KbgpCommon.nodes *)

NodeIds == 1..MaxNodes

NodeData(rect, seen_this_frame) == [rect |-> rect, seen_this_frame |-> seen_this_frame]

\* The empty hash map.
NoNodes == [id \in {} |-> NodeData(Rect(Pos2(0, 0), Pos2(0, 0)), FALSE)]

\* kbgp_prepare, were no node evicted.
RetainSeen_KeepAll(nodes) == [id \in DOMAIN nodes |-> NodeData(nodes[id].rect, FALSE)]

\* kbgp_prepare: nodes.retain(|_, data| data.seen_this_frame), then every
\* survivor's seen_this_frame is cleared.
RetainSeen(nodes) ==
    [id \in {i \in DOMAIN nodes : nodes[i].seen_this_frame} |->
        NodeData(nodes[id].rect, FALSE)]

\* kbgp_navigation: nodes.insert(id, NodeData { rect, seen_this_frame: true })
InsertNode(nodes, id, rect) ==
    [i \in DOMAIN nodes \cup {id} |->
        IF i = id THEN NodeData(rect, TRUE) ELSE nodes[i]]

-----------------------------------------------------------------------------
(* navigation.rs: PendingReleaseState *)

PendingReleaseState(kind, id, is_user_action, user_action, cooldown_frame) ==
    [kind |-> kind, id |-> id, is_user_action |-> is_user_action,
     user_action |-> user_action, cooldown_frame |-> cooldown_frame]

Idle == PendingReleaseState("Idle", 0, FALSE, None, FALSE)

NodeHeld(id, is_user_action, user_action) ==
    PendingReleaseState("NodeHeld", id, is_user_action, user_action, FALSE)

NodeHoldReleased(id, user_action) ==
    PendingReleaseState("NodeHoldReleased", id, FALSE, user_action, FALSE)

GloballyHeld(user_action) ==
    PendingReleaseState("GloballyHeld", 0, FALSE, user_action, FALSE)

\* user_action is a Box here, never None: it is kept as Some(payload).
GlobalHoldReleased(user_action) ==
    PendingReleaseState("GlobalHoldReleased", 0, FALSE, user_action, FALSE)

Invalidated(cooldown_frame) ==
    PendingReleaseState("Invalidated", 0, FALSE, None, cooldown_frame)

\* The arm Idle, were a user action without a focused widget not held.
IdleArm_NoGlobalHold(input, current_focus, prev_user_action) ==
    CASE ActivationBits(input) = {} -> Idle
      [] ActivationBits(input) = {INPUT_MASK_CLICK} ->
            IF IsSome(current_focus)
            THEN NodeHeld(Unwrap(current_focus), FALSE, prev_user_action)
            ELSE Invalidated(FALSE)
      [] ActivationBits(input) = {INPUT_MASK_USER_ACTION} ->
            IF IsSome(current_focus)
            THEN NodeHeld(Unwrap(current_focus), TRUE, prev_user_action)
            ELSE Invalidated(FALSE)
      [] OTHER -> Invalidated(FALSE)

\* prepare, the arm PendingReleaseState::Idle
IdleArm(input, current_focus, prev_user_action) ==
    CASE ActivationBits(input) = {} -> Idle
      [] ActivationBits(input) = {INPUT_MASK_CLICK} ->
            IF IsSome(current_focus)
            THEN NodeHeld(Unwrap(current_focus), FALSE, prev_user_action)
            ELSE Invalidated(FALSE)
      [] ActivationBits(input) = {INPUT_MASK_USER_ACTION} ->
            IF IsSome(current_focus)
            THEN NodeHeld(Unwrap(current_focus), TRUE, prev_user_action)
            ELSE GloballyHeld(prev_user_action)
      [] OTHER -> Invalidated(FALSE)

\* prepare, the arm PendingReleaseState::NodeHeld
NodeHeldArm(state, input, current_focus, prev_user_action) ==
    CASE ActivationBits(input) = {} ->
            IF current_focus = Some(state.id)
            THEN NodeHoldReleased(state.id, OptionOr(state.user_action, prev_user_action))
            ELSE Idle
      [] ActivationBits(input) = {INPUT_MASK_CLICK} ->
            IF state.is_user_action THEN Invalidated(FALSE) ELSE state
      [] ActivationBits(input) = {INPUT_MASK_USER_ACTION} ->
            IF ~state.is_user_action THEN Invalidated(FALSE)
            ELSE IF IsSome(prev_user_action)
                 THEN NodeHeld(state.id, state.is_user_action, prev_user_action)
                 ELSE state
      [] OTHER -> Invalidated(FALSE)

\* prepare, the arm PendingReleaseState::GloballyHeld
GloballyHeldArm(state, input, prev_user_action) ==
    CASE ActivationBits(input) = {} ->
            IF IsSome(OptionOr(state.user_action, prev_user_action))
            THEN GlobalHoldReleased(OptionOr(state.user_action, prev_user_action))
            ELSE Idle
      [] ActivationBits(input) = {INPUT_MASK_USER_ACTION} ->
            IF IsSome(prev_user_action) THEN GloballyHeld(prev_user_action) ELSE state
      [] OTHER -> Invalidated(FALSE)

\* prepare, the arm PendingReleaseState::Invalidated
InvalidatedArm(state, input) ==
    IF state.cooldown_frame THEN Invalidated(FALSE)
    ELSE IF INPUT_MASK_CLICK \notin input THEN Idle
    ELSE state

\* The match, were a released state kept while an activation input is asserted.
PendingReleaseNext_ReleasedKept(state, input, current_focus, prev_user_action) ==
    CASE state.kind = "Idle" -> IdleArm(input, current_focus, prev_user_action)
      [] state.kind = "NodeHeld" -> NodeHeldArm(state, input, current_focus, prev_user_action)
      [] state.kind = "NodeHoldReleased" ->
            IF ActivationBits(input) = {} THEN Idle ELSE state
      [] state.kind = "GloballyHeld" -> GloballyHeldArm(state, input, prev_user_action)
      [] state.kind = "GlobalHoldReleased" ->
            IF ActivationBits(input) = {} THEN Idle ELSE state
      [] state.kind = "Invalidated" -> InvalidatedArm(state, input)

\* prepare: match &mut self.pending_release_state
PendingReleaseNext(state, input, current_focus, prev_user_action) ==
    CASE state.kind = "Idle" -> IdleArm(input, current_focus, prev_user_action)
      [] state.kind = "NodeHeld" -> NodeHeldArm(state, input, current_focus, prev_user_action)
      [] state.kind = "NodeHoldReleased" -> Idle
      [] state.kind = "GloballyHeld" -> GloballyHeldArm(state, input, prev_user_action)
      [] state.kind = "GlobalHoldReleased" -> Idle
      [] state.kind = "Invalidated" -> InvalidatedArm(state, input)

-----------------------------------------------------------------------------
(* navigation.rs: KbgpNavigationState; pending_input.rs: KbgpPendingInputState *)

\* KbgpNavigationState::default()
DefaultNavigationState ==
    [prev_input |-> {},
     pending_release_state |-> Idle,
     next_navigation |-> 0,
     user_action |-> None,
     focus_label |-> None,
     next_frame_focus_label |-> None,
     focus_on |-> None,
     last_focus |-> None,
     mouse_was_last_on |-> None]

\* Box::new(KbgpInitialFocusLabel)
KbgpInitialFocusLabel == <<"KbgpInitialFocusLabel", "">>

\* KbgpPendingInputState::new
NewPendingInputState(acceptor_id) ==
    [acceptor_id |-> acceptor_id,
     input_this_frame |-> <<>>,
     ignored_input |-> None,
     received_input |-> {}]

\* The value of the variable `pending` while kbgp.state is Navigation (the enum
\* then holds no KbgpPendingInputState).
NoPendingInputState == NewPendingInputState(0)

\* The effective input, were a held mask repeated by secs_between_inputs from
\* its first frame on.
EffectiveInput_NoFirstDelay(input, prev_input, next_navigation, current_time) ==
    IF input = {}
    THEN [effective_input |-> {}, next_navigation |-> next_navigation]
    ELSE IF prev_input # input
         THEN [effective_input |-> input \ prev_input,
               next_navigation |-> current_time + secs_between_inputs]
         ELSE IF current_time < next_navigation
              THEN [effective_input |-> {}, next_navigation |-> next_navigation]
              ELSE [effective_input |-> input,
                    next_navigation |-> current_time + secs_between_inputs]

\* prepare: effective_input and the new next_navigation, from handle.input,
\* self.prev_input, self.next_navigation and the current time.
EffectiveInput(input, prev_input, next_navigation, current_time) ==
    IF input = {}
    THEN [effective_input |-> {}, next_navigation |-> next_navigation]
    ELSE IF prev_input # input
         THEN [effective_input |-> input \ prev_input,
               next_navigation |-> current_time + secs_after_first_input]
         ELSE IF current_time < next_navigation
              THEN [effective_input |-> {}, next_navigation |-> next_navigation]
              ELSE [effective_input |-> input,
                    next_navigation |-> current_time + secs_between_inputs]

\* The two matches, were a direction taken whenever its bit is effective, Up
\* before Down and Left before Right.
MoveFocusTo_BitTests(nodes, order, ctx_focused, effective_input) ==
    LET vertical ==
            IF INPUT_MASK_UP \in effective_input
            THEN move_focus(nodes, order, ctx_focused, None, INPUT_MASK_UP)
            ELSE IF INPUT_MASK_DOWN \in effective_input
                 THEN move_focus(nodes, order, ctx_focused, None, INPUT_MASK_DOWN)
                 ELSE None
    IN  IF INPUT_MASK_LEFT \in effective_input
        THEN move_focus(nodes, order, ctx_focused, vertical, INPUT_MASK_LEFT)
        ELSE IF INPUT_MASK_RIGHT \in effective_input
             THEN move_focus(nodes, order, ctx_focused, vertical, INPUT_MASK_RIGHT)
             ELSE vertical

\* prepare: the two matches on the direction bits; the value of move_focus_to.
MoveFocusTo(nodes, order, ctx_focused, effective_input) ==
    LET vertical ==
            IF effective_input \cap INPUT_MASK_VERTICAL = {INPUT_MASK_UP}
            THEN move_focus(nodes, order, ctx_focused, None, INPUT_MASK_UP)
            ELSE IF effective_input \cap INPUT_MASK_VERTICAL = {INPUT_MASK_DOWN}
                 THEN move_focus(nodes, order, ctx_focused, None, INPUT_MASK_DOWN)
                 ELSE None
    IN  IF effective_input \cap INPUT_MASK_HORIZONTAL = {INPUT_MASK_LEFT}
        THEN move_focus(nodes, order, ctx_focused, vertical, INPUT_MASK_LEFT)
        ELSE IF effective_input \cap INPUT_MASK_HORIZONTAL = {INPUT_MASK_RIGHT}
             THEN move_focus(nodes, order, ctx_focused, vertical, INPUT_MASK_RIGHT)
             ELSE vertical

-----------------------------------------------------------------------------
(* pending_input.rs: KbgpPreparePendingInput and KbgpPendingInputState *)

\* The inputs the PendingInput arm of kbgp_system_default_input's prepare_dlg
\* passes on, by the allow_ settings.
AcceptedInputs(settings, pressed) ==
    {i \in pressed :
        CASE i[1] = "Keyboard" -> settings.allow_keyboard
          [] i[1] = "MouseButton" -> settings.allow_mouse_buttons
          [] i[1] \in {"MouseWheelUp", "MouseWheelDown"} -> settings.allow_mouse_wheel
          [] i[1] \in {"MouseWheelLeft", "MouseWheelRight"} -> settings.allow_mouse_wheel_sideways
          [] OTHER -> settings.allow_gamepads}

\* The place of an input's device in the prepare_dlg: keyboard, mouse buttons,
\* mouse wheel, gamepads.
DeviceRank(i) ==
    CASE i[1] = "Keyboard" -> 1
      [] i[1] = "MouseButton" -> 2
      [] i[1] \in {"MouseWheelUp", "MouseWheelDown", "MouseWheelLeft", "MouseWheelRight"} -> 3
      [] OTHER -> 4

\* accept_gamepad_input: the place of an axis in its array of axes.
AxisIndex(axis) ==
    CASE axis = "LeftStickX" -> 1
      [] axis = "LeftStickY" -> 2
      [] axis = "LeftZ" -> 3
      [] axis = "RightStickX" -> 4
      [] axis = "RightStickY" -> 5
      [] axis = "RightZ" -> 6

\* a can be pushed to current_input before b.
MayPrecede(a, b) ==
    \/ DeviceRank(a) < DeviceRank(b)
    \/ /\ DeviceRank(a) = DeviceRank(b)
       /\ \/ DeviceRank(a) < 4
          \/ a[3] # b[3]
          \/ a[1] = "GamepadButton"
          \/ b[1] # "GamepadButton" /\ AxisIndex(a[2]) <= AxisIndex(b[2])

\* The values handle.current_input can have after the prepare_dlg: the
\* accepted inputs device by device, each hash set in any order, each
\* gamepad's buttons before its axes.
CurrentInputs(settings, pressed) ==
    {o \in IterationOrders(AcceptedInputs(settings, pressed)) :
        /\ \A i, j \in DOMAIN o : i < j => MayPrecede(o[i], o[j])
        /\ \A i, j, k \in DOMAIN o :
              (i < j /\ j < k /\ DeviceRank(o[i]) = 4 /\ o[i][3] = o[k][3]) => o[j][3] = o[i][3]}

\* The elements of a sequence as a set.
Range(seq) == {seq[i] : i \in DOMAIN seq}

\* The elements of inputs[i..] that are not in `drop`, in order.
RECURSIVE FilterNotIn(_, _, _, _)
FilterNotIn(inputs, i, drop, out) ==
    IF i > Len(inputs) THEN out
    ELSE FilterNotIn(inputs, i + 1, drop,
                     IF inputs[i] \in drop THEN out ELSE Append(out, inputs[i]))

\* KbgpPendingInputState::prepare, were the baseline not filtered out.
PendingPrepare_NoFilter(state, current_input) ==
    IF IsSome(state.ignored_input)
    THEN [state EXCEPT !.ignored_input = Some(Unwrap(state.ignored_input)
                                              \cap Range(current_input)),
                       !.input_this_frame = current_input]
    ELSE [state EXCEPT !.ignored_input = Some(Range(current_input))]

\* prepare, were the ignored set kept as the baseline took it.
PendingPrepare_BaselineKept(state, current_input) ==
    IF IsSome(state.ignored_input)
    THEN [state EXCEPT !.input_this_frame =
                           FilterNotIn(current_input, 1, Unwrap(state.ignored_input), <<>>)]
    ELSE [state EXCEPT !.ignored_input = Some(Range(current_input))]

\* KbgpPendingInputState::prepare, current_input being handle.current_input.
PendingPrepare(state, current_input) ==
    IF IsSome(state.ignored_input)
    THEN LET ignored_input == Unwrap(state.ignored_input) \cap Range(current_input)
         IN  [state EXCEPT !.ignored_input = Some(ignored_input),
                           !.input_this_frame = FilterNotIn(current_input, 1, ignored_input, <<>>)]
    ELSE [state EXCEPT !.ignored_input = Some(Range(current_input))]

\* The closures, were kbgp_pending_input_vetted's not to test is_empty().
ShouldAdd_NoLimit(variant, source, received, input) ==
    CASE variant = "kbgp_pending_input" -> {TRUE}
      [] variant = "kbgp_pending_input_of_source" -> {get_source(input) = source}
      [] variant = "kbgp_pending_chord" -> {TRUE}
      [] variant = "kbgp_pending_chord_of_source" -> {get_source(input) = source}
      [] variant = "kbgp_pending_chord_same_source" ->
            IF received = {} THEN {TRUE}
            ELSE {get_source(input) = get_source(existing_input) : existing_input \in received}

\* The closures, were kbgp_pending_chord_same_source to accept every source.
ShouldAdd_AnySource(variant, source, received, input) ==
    CASE variant = "kbgp_pending_input" -> {received = {}}
      [] variant = "kbgp_pending_input_of_source" ->
            {received = {} /\ get_source(input) = source}
      [] variant = "kbgp_pending_chord" -> {TRUE}
      [] variant = "kbgp_pending_chord_of_source" -> {get_source(input) = source}
      [] variant = "kbgp_pending_chord_same_source" -> {TRUE}

\* The closures the kbgp_pending_* methods pass to process_new_input as
\* should_add: the values the closure can return for `input` when the received
\* set is `received`.  existing.iter().next() is any element of the hash set.
ShouldAdd(variant, source, received, input) ==
    CASE variant = "kbgp_pending_input" -> {received = {}}
      [] variant = "kbgp_pending_input_of_source" ->
            {received = {} /\ get_source(input) = source}
      [] variant = "kbgp_pending_chord" -> {TRUE}
      [] variant = "kbgp_pending_chord_of_source" -> {get_source(input) = source}
      [] variant = "kbgp_pending_chord_same_source" ->
            IF received = {} THEN {TRUE}
            ELSE {get_source(input) = get_source(existing_input) : existing_input \in received}

\* The loop body, were the opposite pole left in the set.
AddInput_KeepOpposite(received, input) == received \cup {input}

\* process_new_input's loop body for an input that should_add accepted.
AddInput(received, input) == (received \ OppositeOf(input)) \cup {input}

\* KbgpInputManualHandle::process_new_input over input_this_frame[i..]: the
\* received sets it can end with.
RECURSIVE process_new_input(_, _, _, _, _)
process_new_input(input_this_frame, i, received, variant, source) ==
    IF i > Len(input_this_frame) THEN {received}
    ELSE UNION {process_new_input(input_this_frame, i + 1,
                                  IF add THEN AddInput(received, input_this_frame[i])
                                  ELSE received,
                                  variant, source) :
                   add \in ShouldAdd(variant, source, received, input_this_frame[i])}

IsChordVariant(variant) ==
    variant \in {"kbgp_pending_chord", "kbgp_pending_chord_of_source",
                 "kbgp_pending_chord_same_source"}

\* What a pending-input method returns: [input, chord, panic].
Returned(input, chord, panic) == [input |-> input, chord |-> chord, panic |-> panic]

ReturnedNone == Returned(None, None, FALSE)

\* kbgp_pending_input_vetted: the closure's value once process_new_input has
\* left `received`.  The assertion failing is panic = TRUE.
PendingInputResult(input_this_frame, received) ==
    IF \E inp \in Range(input_this_frame) : inp \in received
    THEN ReturnedNone
    ELSE IF Cardinality(received) > 1
         THEN Returned(None, None, TRUE)
         ELSE IF received = {} THEN ReturnedNone
              ELSE Returned(Some(CHOOSE inp \in received : TRUE), None, FALSE)

\* The closure's value, were the chord returned while inputs are pressed.
PendingChordResult_WhilePressed(input_this_frame, received) ==
    IF received = {}
    THEN ReturnedNone
    ELSE Returned(None, Some(received), FALSE)

\* kbgp_pending_chord_vetted: the closure's value.
PendingChordResult(input_this_frame, received) ==
    IF Len(input_this_frame) > 0 \/ received = {}
    THEN ReturnedNone
    ELSE Returned(None, Some(received), FALSE)

\* The method each widget of the UI calls, as the buttons of
\* examples/example.rs each call one kbgp_pending_* method every frame.
WidgetVariant(id) ==
    CASE id % 3 = 1 -> "kbgp_pending_chord"
      [] id % 3 = 2 -> "kbgp_pending_input"
      [] OTHER -> "kbgp_pending_chord_same_source"

\* The source argument of the _of_source methods (none of the widgets above).
WidgetSource(id) == KeyboardAndMouse

-----------------------------------------------------------------------------
(* State *)

VARIABLES
    now,          \* egui: input.time of the current frame, in ticks
    focused,      \* egui: memory.focused(), an Option<Id>
    events,       \* egui: the events kbgp_prepare pushed to input.events this frame
    nodes,        \* Kbgp.common.nodes
    kbgp_state,   \* the variant of Kbgp.state: "Navigation" or "PendingInput"
    nav,          \* the KbgpNavigationState of KbgpState::Navigation
    pending,      \* the KbgpPendingInputState of KbgpState::PendingInput
    returned,     \* what the last kbgp_pending_* call of this frame returned
    drawn,        \* history: id -> rect of the kbgp_navigation calls since the last kbgp_prepare
    obs,          \* history: locals of the last KbgpNavigationState::prepare, the
                  \* pending_release_state it started from, the ids evicted before it
    hist,         \* history of the current hold and of the command mask, of the
                  \* labels given to kbgp_set_focus_label in this frame and in the
                  \* previous one, and of kbgp_prevent_loss_of_focus
    cap           \* history of the current capture

vars == <<now, focused, events, nodes, kbgp_state, nav, pending, returned, drawn, obs, hist, cap>>

NoDrawn == [id \in {} |-> Rect(Pos2(0, 0), Pos2(0, 0))]

NoObs ==
    [effective_input |-> {}, current_focus |-> None, move_focus_to |-> None, before |-> Idle,
     evicted |-> {}]

\* No hold, no pulse, no label set or declared and no focus seen yet.
NoHist ==
    [away |-> FALSE, mask_since |-> 0, pulsed_at |-> None, pulses |-> 0,
     set_labels |-> {}, prev_labels |-> {}, had_focus |-> None, guarded |-> FALSE,
     matched |-> None, late |-> FALSE, first |-> None, refused |-> FALSE]

NoCap == [held |-> {}, seen |-> {}, missed |-> FALSE, queried |-> FALSE]

Init ==
    /\ now = 0
    /\ focused = None
    /\ events = <<>>
    /\ nodes = NoNodes
    /\ kbgp_state = "Navigation"
    /\ nav = DefaultNavigationState
    /\ pending = NoPendingInputState
    /\ returned = ReturnedNone
    /\ drawn = NoDrawn
    /\ obs = NoObs
    /\ hist = NoHist
    /\ cap = NoCap

-----------------------------------------------------------------------------
(* kbgp_prepare *)

\* self.user_action, were the previous frame's value left in place.
StoredUserAction_CarriedOver(effective_input, handle_user_action, prev_user_action) ==
    IF INPUT_MASK_USER_ACTION \in effective_input THEN handle_user_action
    ELSE prev_user_action

\* prepare: self.user_action after the call.  self.user_action.take() empties
\* it, and it is set again only when the User bit is effective.
StoredUserAction(effective_input, handle_user_action, prev_user_action) ==
    IF INPUT_MASK_USER_ACTION \in effective_input THEN handle_user_action
    ELSE None

\* The end of KbgpNavigationState::prepare and the Navigation arm of
\* kbgp_prepare, given prepare's locals: input is handle.input, e the effective
\* input and the new next_navigation, current_focus is memory.focused() after
\* the focus request, release the new pending_release_state.
NavigationCommit(input, e, move_focus_to, current_focus, release, retained, user_action, current_time) ==
    /\ nav' = [nav EXCEPT
            !.prev_input = input,
            !.pending_release_state = release,
            !.next_navigation = e.next_navigation,
            !.user_action = StoredUserAction(e.effective_input, user_action, nav.user_action),
            !.focus_on = None,
            !.focus_label = IF DOMAIN retained = {} /\ ~IsSome(nav.next_frame_focus_label)
                            THEN Some(KbgpInitialFocusLabel)
                            ELSE nav.next_frame_focus_label,
            !.next_frame_focus_label = None]
    /\ events' = IF INPUT_MASK_CLICK \in e.effective_input THEN <<"Enter">> ELSE <<>>
    \* state.focus_on.take(): memory.request_focus(focus_on)
    /\ focused' = OptionOr(nav.focus_on, current_focus)
    /\ UNCHANGED <<kbgp_state, pending>>
    /\ obs' = [effective_input |-> e.effective_input,
               current_focus |-> current_focus,
               move_focus_to |-> move_focus_to,
               before |-> nav.pending_release_state,
               evicted |-> DOMAIN nodes \ DOMAIN retained]
    /\ hist' = [away |-> /\ nav.pending_release_state.kind = "NodeHeld"
                         /\ release.kind = "NodeHeld"
                         /\ (hist.away \/ current_focus # Some(release.id)),
                mask_since |-> IF input # nav.prev_input THEN current_time
                               ELSE hist.mask_since,
                pulsed_at |-> IF e.effective_input # {} THEN Some(current_time)
                              ELSE hist.pulsed_at,
                pulses |-> IF e.effective_input = {} THEN hist.pulses
                           ELSE IF input # nav.prev_input THEN 1
                           ELSE IF hist.pulses < MaxPulses THEN hist.pulses + 1
                           ELSE MaxPulses,
                set_labels |-> {},
                prev_labels |-> hist.set_labels,
                had_focus |-> hist.had_focus,
                guarded |-> FALSE,
                matched |-> None,
                late |-> FALSE,
                first |-> IF hist.late THEN nav.focus_on ELSE None,
                refused |-> FALSE]
    /\ cap' = NoCap

\* prepare: match &mut self.pending_release_state, current_focus being
\* memory.focused() after memory.request_focus(move_focus).
NavigationRelease(input, e, move_focus_to, current_focus, retained, user_action, current_time) ==
    NavigationCommit(input, e, move_focus_to, current_focus,
                     PendingReleaseNext(nav.pending_release_state, input, current_focus,
                                        nav.user_action),
                     retained, user_action, current_time)

\* prepare: the focus move, made only when handle.input != 0.
NavigationMove(input, e, move_focus_to, retained, user_action, current_time) ==
    NavigationRelease(input, e, move_focus_to, OptionOr(move_focus_to, focused),
                      retained, user_action, current_time)

\* prepare: the effective input.
NavigationInput(input, e, retained, order, user_action, current_time) ==
    NavigationMove(input, e,
                   IF input = {} THEN None
                   ELSE MoveFocusTo(retained, order, focused, e.effective_input),
                   retained, user_action, current_time)

\* KbgpNavigationState::prepare and the Navigation arm of kbgp_prepare.
\* retained is common.nodes after the eviction, order its iteration order,
\* user_action the handle's user_action, current_time the frame's time.
PrepareNavigation(input, retained, order, user_action, current_time) ==
    NavigationInput(input,
                    EffectiveInput(input, nav.prev_input, nav.next_navigation, current_time),
                    retained, order, user_action, current_time)

\* kbgp_prepare, the PendingInput arm: the test that ends the capture.
CaptureAbandoned(retained, acceptor_id) == DOMAIN retained = {}

\* KbgpPendingInputState::prepare and the PendingInput arm of kbgp_prepare.
PreparePendingInput(retained, current_input) ==
    LET prepared == PendingPrepare(pending, current_input)
        held == IF IsSome(pending.ignored_input)
                THEN cap.held \cap Range(current_input)
                ELSE Range(current_input)
    IN  /\ IF CaptureAbandoned(retained, pending.acceptor_id)
           THEN /\ kbgp_state' = "Navigation"
                /\ nav' = DefaultNavigationState
                /\ pending' = NoPendingInputState
                /\ cap' = NoCap
           ELSE /\ pending' = prepared
                /\ cap' = [held |-> held,
                           seen |-> cap.seen \cup
                                    (IF IsSome(pending.ignored_input)
                                     THEN Range(current_input) \ held ELSE {}),
                           missed |-> cap.missed
                                      \/ (~cap.queried /\ Len(pending.input_this_frame) > 0),
                           queried |-> FALSE]
                /\ UNCHANGED <<kbgp_state, nav>>
        /\ events' = <<>>
        /\ obs' = NoObs
        /\ hist' = [hist EXCEPT !.set_labels = {},
                                !.prev_labels = hist.set_labels,
                                !.guarded = FALSE,
                                !.matched = None,
                                !.late = FALSE,
                                !.first = None,
                                !.refused = FALSE]
        /\ UNCHANGED focused

\* kbgp_prepare, called by kbgp_system_default_input with the devices showing
\* `pressed`, dt ticks after the previous frame.
KbgpPrepare(settings, pressed, dt) ==
    LET retained == RetainSeen(nodes)
    IN  /\ now' = now + dt
        /\ nodes' = retained
        /\ drawn' = NoDrawn
        /\ returned' = ReturnedNone
        /\ IF kbgp_state = "Navigation"
           THEN \E order \in IterationOrders(DOMAIN retained),
                   user_action \in HandleUserAction(settings, pressed) :
                    PrepareNavigation(HandleInput(settings, pressed), retained, order,
                                      user_action, now + dt)
           ELSE \E current_input \in CurrentInputs(settings, pressed) :
                    PreparePendingInput(retained, current_input)

-----------------------------------------------------------------------------
(* Methods of the widgets and of the context; egui *)

\* Response::kbgp_navigation of the widget id, drawn at rect.
KbgpNavigation(id, rect) ==
    /\ nodes' = InsertNode(nodes, id, rect)
    /\ drawn' = [i \in DOMAIN drawn \cup {id} |-> IF i = id THEN rect ELSE drawn[i]]
    /\ UNCHANGED <<now, focused, events, kbgp_state, nav, pending, returned, obs, hist, cap>>

\* kbgp_clear_input, were its match on the state left out.
KbgpClearInput_AnyState ==
    /\ nav' = [nav EXCEPT !.user_action = None,
                          !.pending_release_state = Invalidated(TRUE)]
    /\ events' = <<>>
    /\ UNCHANGED <<now, focused, nodes, kbgp_state, pending, returned, drawn, obs, hist, cap>>

\* Context::kbgp_clear_input
KbgpClearInput ==
    /\ IF kbgp_state = "Navigation"
       THEN nav' = [nav EXCEPT !.user_action = None,
                               !.pending_release_state = Invalidated(TRUE)]
       ELSE UNCHANGED nav
    /\ events' = <<>>
    /\ UNCHANGED <<now, focused, nodes, kbgp_state, pending, returned, drawn, obs, hist, cap>>

\* egui moves the focus by itself: a mouse click, Tab, or a widget that gave
\* the focus up.
EguiFocus(focus) ==
    /\ focused # focus
    /\ focused' = focus
    /\ UNCHANGED <<now, events, nodes, kbgp_state, nav, pending, returned, drawn, obs, hist, cap>>

\* The test of the acceptor, were every widget taken for it.
IsAcceptor_AnyWidget(id) == TRUE

\* kbgp_pending_input_manual: state.acceptor_id != self.id, negated.
IsAcceptor(id) == pending.acceptor_id = id

\* Response::kbgp_pending_input_manual as called by the widget's
\* kbgp_pending_* method; clicked is the widget's Response::clicked().
KbgpPendingInputCall(id, clicked) ==
    /\ IF kbgp_state = "Navigation"
       THEN /\ IF clicked
               THEN /\ kbgp_state' = "PendingInput"
                    /\ pending' = NewPendingInputState(id)
                    /\ nav' = DefaultNavigationState
                    /\ cap' = NoCap
               ELSE UNCHANGED <<kbgp_state, pending, nav, cap>>
            /\ returned' = ReturnedNone
            /\ UNCHANGED focused
       ELSE IF ~IsAcceptor(id)
            THEN /\ returned' = ReturnedNone
                 /\ UNCHANGED <<kbgp_state, pending, nav, focused, cap>>
            ELSE \E received \in process_new_input(pending.input_this_frame, 1,
                                                   pending.received_input,
                                                   WidgetVariant(id), WidgetSource(id)) :
                    LET result == IF IsChordVariant(WidgetVariant(id))
                                  THEN PendingChordResult(pending.input_this_frame, received)
                                  ELSE PendingInputResult(pending.input_this_frame, received)
                    IN  /\ focused' = Some(id)
                        /\ returned' = result
                        /\ IF IsSome(result.input) \/ IsSome(result.chord)
                           THEN /\ kbgp_state' = "Navigation"
                                /\ nav' = DefaultNavigationState
                                /\ pending' = NoPendingInputState
                           ELSE /\ pending' = [pending EXCEPT !.received_input = received]
                                /\ UNCHANGED <<kbgp_state, nav>>
                        /\ cap' = [cap EXCEPT !.queried = TRUE]
    /\ UNCHANGED <<now, events, nodes, drawn, obs>>

KbgpPendingInput(id, clicked) ==
    /\ KbgpPendingInputCall(id, clicked)
    /\ UNCHANGED hist

\* The same call, with a record of the clicks a capture has not answered:
\* refused tells that since the last kbgp_prepare a widget other than the
\* acceptor was clicked and asked while the capture was going on.
KbgpPendingInputRecorded(id, clicked) ==
    /\ KbgpPendingInputCall(id, clicked)
    /\ hist' = [hist EXCEPT !.refused = @ \/ (/\ kbgp_state = "PendingInput"
                                              /\ pending.acceptor_id # id
                                              /\ clicked)]

\* Response::kbgp_click_released of the widget id, without the mouse path
\* (hovered and primary_released).
kbgp_click_released(id) ==
    /\ kbgp_state = "Navigation"
    /\ nav.pending_release_state.kind = "NodeHoldReleased"
    /\ nav.pending_release_state.user_action = None
    /\ nav.pending_release_state.id = id

\* The types T the UI asks for: the type of the bound actions, and another.
ActionTypes == {"KbgpActions", "MenuActions"}

\* A downcast that does not look at the type.
Downcast_AnyType(type, boxed) ==
    IF IsSome(boxed) THEN Some(Unwrap(boxed)[2]) ELSE None

\* downcast_ref::<T>().cloned() of an Option<Box<dyn Any>>
Downcast(type, boxed) ==
    IF IsSome(boxed) /\ Unwrap(boxed)[1] = type THEN Some(Unwrap(boxed)[2]) ELSE None

\* Context::kbgp_user_action::<T>
kbgp_user_action(type) ==
    IF kbgp_state = "PendingInput" THEN None ELSE Downcast(type, nav.user_action)

\* Context::kbgp_user_action_released::<T>
kbgp_user_action_released(type) ==
    IF kbgp_state = "PendingInput" THEN None
    ELSE IF nav.pending_release_state.kind \in {"NodeHoldReleased", "GlobalHoldReleased"}
         THEN Downcast(type, nav.pending_release_state.user_action)
         ELSE None

\* The record of the declarations of a frame after kbgp_focus_label of the
\* widget id: matched is the label a widget has taken in this frame, late
\* tells that another widget declared that label after it was taken.
DeclaredHist(id, label) ==
    IF kbgp_state = "Navigation" /\ Downcast(label[1], nav.focus_label) = Some(label[2])
    THEN [hist EXCEPT !.matched = Some(label), !.late = FALSE]
    ELSE IF /\ kbgp_state = "Navigation"
            /\ hist.matched = Some(label)
            /\ IsSome(nav.focus_on)
            /\ nav.focus_on # Some(id)
         THEN [hist EXCEPT !.late = TRUE]
         ELSE hist

\* kbgp_focus_label, were it to look at the label set in this frame.
KbgpFocusLabel_ThisFrame(id, label) ==
    /\ IF kbgp_state = "Navigation"
          /\ Downcast(label[1], nav.next_frame_focus_label) = Some(label[2])
       THEN nav' = [nav EXCEPT !.next_frame_focus_label = None, !.focus_on = Some(id)]
       ELSE UNCHANGED nav
    /\ UNCHANGED <<now, focused, events, nodes, kbgp_state, pending, returned, drawn, obs, hist, cap>>

\* Response::kbgp_focus_label::<T> of the widget id; label is <<T, value>>.
KbgpFocusLabel(id, label) ==
    /\ IF kbgp_state = "Navigation" /\ Downcast(label[1], nav.focus_label) = Some(label[2])
       THEN nav' = [nav EXCEPT !.focus_label = None, !.focus_on = Some(id)]
       ELSE UNCHANGED nav
    /\ UNCHANGED <<now, focused, events, nodes, kbgp_state, pending, returned, drawn, obs, hist, cap>>

\* The navigation state after kbgp_focus_label, were the pending label left
\* in place by a match.
FocusLabelState_LabelKept(id, label) ==
    IF kbgp_state = "Navigation" /\ Downcast(label[1], nav.focus_label) = Some(label[2])
    THEN [nav EXCEPT !.focus_on = Some(id)]
    ELSE nav

\* The navigation state after Response::kbgp_focus_label::<T> of the widget id.
FocusLabelState(id, label) ==
    IF kbgp_state = "Navigation" /\ Downcast(label[1], nav.focus_label) = Some(label[2])
    THEN [nav EXCEPT !.focus_label = None, !.focus_on = Some(id)]
    ELSE nav

\* Response::kbgp_focus_label::<T> of the widget id, the declarations of the
\* frame being recorded.
KbgpFocusLabelRecorded(id, label) ==
    /\ nav' = FocusLabelState(id, label)
    /\ hist' = DeclaredHist(id, label)
    /\ UNCHANGED <<now, focused, events, nodes, kbgp_state, pending, returned, drawn, obs, cap>>

\* Context::kbgp_set_focus_label::<T>; label is <<T, value>>.
KbgpSetFocusLabel(label) ==
    /\ IF kbgp_state = "Navigation"
       THEN nav' = [nav EXCEPT !.next_frame_focus_label = Some(label)]
       ELSE UNCHANGED nav
    /\ hist' = [hist EXCEPT !.set_labels = @ \cup {label}]
    /\ UNCHANGED <<now, focused, events, nodes, kbgp_state, pending, returned, drawn, obs, cap>>

\* kbgp_prevent_loss_of_focus, as kbgp_system_default_input calls it before
\* kbgp_prepare when settings.prevent_loss_of_focus is set.
KbgpPreventLossOfFocus ==
    /\ IF kbgp_state = "PendingInput"
       THEN UNCHANGED <<nav, focused>>
       ELSE IF IsSome(focused)
            THEN /\ nav' = [nav EXCEPT !.last_focus = focused]
                 /\ UNCHANGED focused
            ELSE IF IsSome(nav.last_focus)
                 THEN /\ nav' = [nav EXCEPT !.last_focus = None]
                      /\ focused' = nav.last_focus
                 ELSE UNCHANGED <<nav, focused>>
    /\ hist' = [hist EXCEPT !.had_focus = IF IsSome(focused) THEN focused ELSE @,
                            !.guarded = TRUE]
    /\ UNCHANGED <<now, events, nodes, kbgp_state, pending, returned, drawn, obs, cap>>

\* Response::kbgp_user_action_released::<T> of the widget id
Response_kbgp_user_action_released(id, type) ==
    IF /\ focused = Some(id)
       /\ kbgp_state = "Navigation"
       /\ nav.pending_release_state.kind = "NodeHoldReleased"
       /\ IsSome(nav.pending_release_state.user_action)
       /\ nav.pending_release_state.id = id
    THEN Downcast(type, nav.pending_release_state.user_action)
    ELSE None

-----------------------------------------------------------------------------
(* Specifications *)

\* The devices of the navigation specification: the gamepad's south button
\* (Click), KeyZ (a user action) and the down arrow.
NavInputs == {GamepadButton(1, "South"), Keyboard("KeyZ"), Keyboard("ArrowDown")}

\* The gaps between two frames, in ticks: shorter than secs_after_first_input,
\* and as long as it.
FrameGaps == {secs_after_first_input \div 3, secs_after_first_input}

PrepareStep ==
    \E pressed \in SUBSET NavInputs, dt \in FrameGaps :
        /\ now + dt <= MaxTime
        /\ KbgpPrepare(DefaultSettings, pressed, dt)

ClearInputStep == KbgpClearInput

FocusStep == \E focus \in {None} \cup {Some(id) : id \in NodeIds} : EguiFocus(focus)

Next == PrepareStep \/ ClearInputStep \/ FocusStep

Spec == Init /\ [][Next]_vars

\* The timing specification: one direction key and the click button, frames
\* that follow one another faster than secs_between_inputs, as fast, and as
\* slowly as secs_after_first_input.
TimingInputs == {Keyboard("ArrowDown"), GamepadButton(1, "South")}

TimingGaps == {1, secs_between_inputs, secs_after_first_input}

TimingPrepareStep ==
    \E pressed \in SUBSET TimingInputs, dt \in TimingGaps :
        /\ now + dt <= MaxTimingTime
        /\ KbgpPrepare(DefaultSettings, pressed, dt)

SpecTiming == Init /\ [][TimingPrepareStep]_vars

\* The capture specification: the two poles of an axis that no navigation
\* command reads and the two vertical wheel events; the widgets are
\* drawn or not, queried or not, clicked or not, frame after frame.
CaptureInputs ==
    {GamepadAxisPositive(1, "RightStickX"), GamepadAxisNegative(1, "RightStickX"),
     MouseWheelUp, MouseWheelDown}

WidgetRect == Rect(Pos2(0, 0), Pos2(2, 1))

CapturePrepareStep ==
    \E pressed \in {p \in SUBSET CaptureInputs : Consistent(p)} :
        /\ now + 1 <= MaxFrames
        /\ KbgpPrepare(WheelSettings, pressed, 1)

CaptureNavigationStep == \E id \in NodeIds : KbgpNavigation(id, WidgetRect)

CapturePendingInputStep == \E id \in NodeIds, clicked \in BOOLEAN : KbgpPendingInput(id, clicked)

CaptureNext == CapturePrepareStep \/ CaptureNavigationStep \/ CapturePendingInputStep

SpecCapture == Init /\ [][CaptureNext]_vars

\* The registry specification: the widgets are drawn at one of two places, one
\* below the other, or not at all; the focus is moved by ArrowDown and by egui.
RegistryInputs == {Keyboard("ArrowDown")}

RegistryRects == {Rect(Pos2(0, 0), Pos2(2, 1)), Rect(Pos2(0, 2), Pos2(2, 3))}

RegistryPrepareStep ==
    \E pressed \in SUBSET RegistryInputs :
        /\ now + secs_after_first_input <= MaxTime
        /\ KbgpPrepare(DefaultSettings, pressed, secs_after_first_input)

RegistryNavigationStep == \E id \in NodeIds, rect \in RegistryRects : KbgpNavigation(id, rect)

RegistryNext == RegistryPrepareStep \/ RegistryNavigationStep \/ FocusStep

SpecRegistry == Init /\ [][RegistryNext]_vars

\* The resolver specification: three widgets, each drawn at one of the
\* rectangles of a small grid or not drawn, with the focus on widget 1 or on
\* none; one kbgp_prepare with one arrow key resolves the move.
ResolverIds == {1, 2, 3}

\* The horizontal extents: two that overlap, two that touch, two apart.
ResolverColumns == {<<0, 2>>, <<1, 3>>, <<3, 5>>}

\* The vertical extents: every <<top, bottom>> from 0 to MaxY.
ResolverRows == {<<top, bottom>> \in (0..MaxY) \X (0..MaxY) : top < bottom}

ResolverRects ==
    {Rect(Pos2(c[1], r[1]), Pos2(c[2], r[2])) : c \in ResolverColumns, r \in ResolverRows}

ResolverLayouts == UNION {[ids -> ResolverRects] : ids \in SUBSET ResolverIds}

ResolverInputs ==
    {Keyboard("ArrowUp"), Keyboard("ArrowDown"), Keyboard("ArrowLeft"), Keyboard("ArrowRight")}

ResolverInit ==
    /\ now = 0
    /\ focused \in {None, Some(1)}
    /\ events = <<>>
    /\ \E layout \in ResolverLayouts :
          /\ nodes = [id \in DOMAIN layout |-> NodeData(layout[id], TRUE)]
          /\ drawn = layout
    /\ kbgp_state = "Navigation"
    /\ nav = DefaultNavigationState
    /\ pending = NoPendingInputState
    /\ returned = ReturnedNone
    /\ obs = NoObs
    /\ hist = NoHist
    /\ cap = NoCap

ResolverPrepareStep ==
    \E key \in ResolverInputs :
        /\ now = 0
        /\ KbgpPrepare(DefaultSettings, {key}, 1)

SpecResolver == ResolverInit /\ [][ResolverPrepareStep]_vars

\* The focus-label specification: the UI sets and declares labels of two
\* types, the FocusLabel enum of examples/example.rs and a second type with
\* an equal value, while KeyZ gives a user action and a widget may start a
\* capture.
FocusLabels == {<<"FocusLabel", "Left">>, <<"MenuLabel", "Left">>}

\* The labels a widget declares: kbgp_focus_label, or kbgp_initial_focus.
DeclaredLabels == FocusLabels \cup {<<"FocusLabel", "Right">>, KbgpInitialFocusLabel}

\* The widgets of the UI: two buttons, the second of them a button of
\* kbgp_pending_input.
LabelIds == {1, 2}

LabelInputs == {Keyboard("KeyZ")}

LabelPrepareStep ==
    \E pressed \in SUBSET LabelInputs :
        /\ now + 1 <= MaxLabelFrames
        /\ KbgpPrepare(DefaultSettings, pressed, 1)

LabelNavigationStep == \E id \in LabelIds : KbgpNavigation(id, WidgetRect)

SetFocusLabelStep == \E label \in FocusLabels : KbgpSetFocusLabel(label)

FocusLabelStep == \E id \in LabelIds, label \in DeclaredLabels : KbgpFocusLabel(id, label)

LabelPendingInputStep == \E clicked \in BOOLEAN : KbgpPendingInput(2, clicked)

LabelNext ==
    \/ LabelPrepareStep
    \/ LabelNavigationStep
    \/ SetFocusLabelStep
    \/ FocusLabelStep
    \/ LabelPendingInputStep

SpecLabels == Init /\ [][LabelNext]_vars

\* The declaration specification: the two widgets are drawn and declare
\* labels, the UI sets labels, widget 2 may start a capture, and what was
\* declared in a frame is recorded.
DeclarePrepareStep ==
    /\ now + 1 <= MaxLabelFrames
    /\ KbgpPrepare(DefaultSettings, {}, 1)

DeclareStep == \E id \in LabelIds, label \in DeclaredLabels : KbgpFocusLabelRecorded(id, label)

DeclareNext ==
    \/ DeclarePrepareStep
    \/ LabelNavigationStep
    \/ SetFocusLabelStep
    \/ DeclareStep
    \/ LabelPendingInputStep

SpecDeclare == Init /\ [][DeclareNext]_vars

\* The rebinding specification: two buttons, one above the other, each of
\* which captures an input when clicked (the first a chord, the second a
\* single input).  The player presses ArrowDown and KeyZ, and is holding
\* ArrowDown whenever a capture takes its baseline.
RebindIds == {1, 2}

RebindRect(id) == Rect(Pos2(0, 2 * (id - 1)), Pos2(2, 2 * id - 1))

RebindInputs == {Keyboard("ArrowDown"), Keyboard("KeyZ")}

\* The kbgp_prepare that follows the click takes the baseline.
TakesBaseline == kbgp_state = "PendingInput" /\ pending.ignored_input = None

RebindPrepareStep ==
    \E pressed \in SUBSET RebindInputs :
        /\ now + 1 <= MaxRebindFrames
        /\ TakesBaseline => Keyboard("ArrowDown") \in pressed
        /\ KbgpPrepare(DefaultSettings, pressed, 1)

RebindNavigationStep == \E id \in RebindIds : KbgpNavigation(id, RebindRect(id))

RebindPendingInputStep ==
    \E id \in RebindIds, clicked \in BOOLEAN : KbgpPendingInputRecorded(id, clicked)

RebindNext ==
    \/ RebindPrepareStep
    \/ RebindNavigationStep
    \/ RebindPendingInputStep

SpecRebind == Init /\ [][RebindNext]_vars

\* The specification of a capture among the other calls of the UI: the two
\* buttons are drawn, the second captures an input when clicked, the UI sets
\* a focus label and clears the input, and the player presses a direction,
\* the activation key and the key of a user action.
InertInputs == {Keyboard("ArrowDown"), Keyboard("Enter"), Keyboard("KeyZ")}

InertPrepareStep ==
    \E pressed \in SUBSET InertInputs :
        /\ now + 1 <= MaxLabelFrames
        /\ KbgpPrepare(DefaultSettings, pressed, 1)

InertPendingInputStep == \E clicked \in BOOLEAN : KbgpPendingInput(2, clicked)

InertSetFocusLabelStep == KbgpSetFocusLabel(<<"FocusLabel", "Left">>)

InertNext ==
    \/ InertPrepareStep
    \/ RebindNavigationStep
    \/ InertPendingInputStep
    \/ InertSetFocusLabelStep
    \/ KbgpClearInput

SpecInert == Init /\ [][InertNext]_vars

\* The same-source specification: one button of
\* kbgp_pending_chord_same_source, with a key, a mouse button and a button on
\* each of two gamepads.
SameSourceId == 3

SameSourceInputs ==
    {Keyboard("KeyA"), MouseButton("Left"), GamepadButton(1, "South"), GamepadButton(2, "South")}

SameSourcePrepareStep ==
    \E pressed \in SUBSET SameSourceInputs :
        /\ now + 1 <= MaxFrames
        /\ KbgpPrepare(DefaultSettings, pressed, 1)

SameSourceNavigationStep == KbgpNavigation(SameSourceId, WidgetRect)

SameSourcePendingInputStep == \E clicked \in BOOLEAN : KbgpPendingInput(SameSourceId, clicked)

SameSourceNext ==
    \/ SameSourcePrepareStep
    \/ SameSourceNavigationStep
    \/ SameSourcePendingInputStep

SpecSameSource == Init /\ [][SameSourceNext]_vars

\* The loss-of-focus specification: kbgp_system_default_input with
\* settings.prevent_loss_of_focus calls kbgp_prevent_loss_of_focus and then
\* kbgp_prepare, hist.guarded telling the first call is made; between two
\* frames the UI draws its two widgets and egui moves or drops the focus.
FocusIds == {1, 2}

FocusInputs == {Keyboard("ArrowDown")}

PreventLossOfFocusStep ==
    /\ PreventLossSettings.prevent_loss_of_focus
    /\ ~hist.guarded
    /\ KbgpPreventLossOfFocus

FocusPrepareStep ==
    \E pressed \in SUBSET FocusInputs :
        /\ hist.guarded
        /\ now + 1 <= MaxFocusFrames
        /\ KbgpPrepare(PreventLossSettings, pressed, 1)

FocusNavigationStep ==
    \E id \in FocusIds, rect \in RegistryRects :
        /\ ~hist.guarded
        /\ KbgpNavigation(id, rect)

FocusEguiStep ==
    \E focus \in {None} \cup {Some(id) : id \in FocusIds} :
        /\ ~hist.guarded
        /\ EguiFocus(focus)

FocusNext ==
    \/ PreventLossOfFocusStep
    \/ FocusPrepareStep
    \/ FocusNavigationStep
    \/ FocusEguiStep

SpecFocus == Init /\ [][FocusNext]_vars

\* The activation specification: the default settings and only the keys egui
\* activates a widget with.
ActivationInputs == {Keyboard("Enter"), Keyboard("Space")}

ActivationPrepareStep ==
    \E pressed \in SUBSET ActivationInputs, dt \in FrameGaps :
        /\ now + dt <= MaxTime
        /\ KbgpPrepare(DefaultSettings, pressed, dt)

ActivationNext == ActivationPrepareStep \/ RegistryNavigationStep \/ FocusStep

SpecActivation == Init /\ [][ActivationNext]_vars

\* The grid specification: widget 1, focused, is a unit cell in a corner of
\* the grid, widget 2 a unit cell and widget 3 a unit cell or a block of two
\* by two cells, each drawn anywhere or not drawn; one kbgp_prepare with any
\* set of arrow keys pressed resolves the move.
GridCell(x, y, size) == Rect(Pos2(x, y), Pos2(x + size, y + size))

GridCells(size) == {GridCell(x, y, size) : x \in 0..(MaxCell - size), y \in 0..(MaxCell - size)}

GridCorners == {GridCell(x, y, 1) : x \in {0, MaxCell - 1}, y \in {0, MaxCell - 1}}

\* The rectangles of the widgets drawn, by id.
GridLayout(corner, second, third) ==
    [id \in {1} \cup {2 : r \in second} \cup {3 : r \in third} |->
        IF id = 1 THEN corner
        ELSE IF id = 2 THEN CHOOSE r \in second : TRUE
        ELSE CHOOSE r \in third : TRUE]

GridLayouts ==
    {GridLayout(corner, second, third) :
        corner \in GridCorners,
        second \in {{}} \cup {{r} : r \in GridCells(1)},
        third \in {{}} \cup {{r} : r \in GridCells(1) \cup GridCells(2)}}

GridInputs ==
    SUBSET {Keyboard("ArrowUp"), Keyboard("ArrowDown"), Keyboard("ArrowLeft"),
            Keyboard("ArrowRight")} \ {{}}

GridInit ==
    /\ now = 0
    /\ focused = Some(1)
    /\ events = <<>>
    /\ \E layout \in GridLayouts :
          /\ nodes = [id \in DOMAIN layout |-> NodeData(layout[id], TRUE)]
          /\ drawn = layout
    /\ kbgp_state = "Navigation"
    /\ nav = DefaultNavigationState
    /\ pending = NoPendingInputState
    /\ returned = ReturnedNone
    /\ obs = NoObs
    /\ hist = NoHist
    /\ cap = NoCap

GridPrepareStep ==
    \E pressed \in GridInputs :
        /\ now = 0
        /\ KbgpPrepare(DefaultSettings, pressed, 1)

SpecGrid == GridInit /\ [][GridPrepareStep]_vars

-----------------------------------------------------------------------------
(* Claims *)

\* A step of kbgp_prepare: the only step on which egui's clock advances.
IsPrepare == now' # now

Directions == {INPUT_MASK_UP, INPUT_MASK_DOWN, INPUT_MASK_LEFT, INPUT_MASK_RIGHT}

\* C1: a Click hold that began on widget x (Click asserted alone from Idle) is
\* not reported by kbgp_click_released(x) while it lasts, is reported on the
\* frame whose kbgp_prepare sees every input released with the focus on x, and
\* is not reported on the frame after.
C1_ClickReleasedOnce ==
    [][\A x \in NodeIds :
          (IsPrepare /\ kbgp_state = "Navigation") =>
              /\ (nav'.pending_release_state.kind = "NodeHeld") => ~kbgp_click_released(x)'
              /\ (/\ nav.pending_release_state.kind = "NodeHeld"
                  /\ ~nav.pending_release_state.is_user_action
                  /\ nav.pending_release_state.id = x
                  /\ focused = Some(x)
                  /\ nav'.prev_input = {})
                 => kbgp_click_released(x)'
              /\ kbgp_click_released(x) => ~kbgp_click_released(x)']_vars

\* C2: once a kbgp_prepare of a hold on widget x has seen the focus away from
\* x, the hold never ends in NodeHoldReleased.
C2_NoReleaseAfterFocusAway ==
    [][(/\ IsPrepare
        /\ kbgp_state = "Navigation"
        /\ nav.pending_release_state.kind = "NodeHeld"
        /\ hist.away)
       => nav'.pending_release_state.kind # "NodeHoldReleased"]_vars

\* C3: once kbgp_clear_input was called in a frame whose user action was
\* reported, kbgp_user_action returns None for the rest of the frame and after
\* the next kbgp_prepare, whatever the gap between the frames.
C3_NoUserActionAfterClear ==
    [][(/\ kbgp_state = "Navigation"
        /\ INPUT_MASK_USER_ACTION \in obs.effective_input
        /\ nav.pending_release_state = Invalidated(TRUE))
       => kbgp_user_action("KbgpActions")' = None]_vars

\* C4: the frame in which a direction is first asserted makes a pulse; while
\* the command mask stays as it is, a pulse is made no earlier than
\* secs_after_first_input after the mask took its value, and no earlier than
\* secs_between_inputs after the pulse before it.
C4_PulseTiming ==
    [][\A d \in Directions :
          (IsPrepare /\ kbgp_state = "Navigation") =>
              /\ (d \in nav'.prev_input /\ d \notin nav.prev_input)
                    => d \in obs'.effective_input
              /\ (d \in nav.prev_input /\ nav'.prev_input = nav.prev_input
                    /\ d \in obs'.effective_input)
                    => /\ now' >= hist.mask_since + secs_after_first_input
                       /\ IsSome(hist.pulsed_at)
                       /\ now' - Unwrap(hist.pulsed_at) >= secs_between_inputs]_vars

\* C4's case: a held direction has made its first pulse and two repeat pulses.
C4_Witness ==
    /\ nav.prev_input = {INPUT_MASK_DOWN}
    /\ INPUT_MASK_DOWN \in obs.effective_input
    /\ hist.pulses = 3
    /\ hist.pulsed_at = Some(now)

\* A call of a kbgp_pending_* method by the acceptor of the capture.
AcceptorQuery == \E clicked \in BOOLEAN : KbgpPendingInput(pending.acceptor_id, clicked)

\* No input of the set is the opposite pole of another one.
NoOppositePoles(inputs) ==
    /\ ~({MouseWheelUp, MouseWheelDown} \subseteq inputs)
    /\ ~({MouseWheelLeft, MouseWheelRight} \subseteq inputs)
    /\ \A i \in inputs :
          i[1] = "GamepadAxisPositive" => GamepadAxisNegative(i[3], i[2]) \notin inputs

\* C5: kbgp_pending_chord, called by the acceptor every frame, returns None in
\* a frame in which an input outside the baseline is pressed; in the first
\* frame in which none is, the two inputs (not poles of one axis) that were
\* pressed since the baseline are returned as the chord.
C5_ChordOfTwo ==
    [][(/\ kbgp_state = "PendingInput"
        /\ WidgetVariant(pending.acceptor_id) = "kbgp_pending_chord"
        /\ AcceptorQuery)
       => /\ Len(pending.input_this_frame) > 0 => returned' = ReturnedNone
          /\ (/\ Len(pending.input_this_frame) = 0
              /\ ~cap.missed
              /\ Cardinality(cap.seen) = 2
              /\ NoOppositePoles(cap.seen))
             => returned'.chord = Some(cap.seen)]_vars

\* C5's case: a chord of the two inputs pressed during the capture was returned.
C5_Witness ==
    /\ IsSome(returned.chord)
    /\ Cardinality(cap.seen) = 2
    /\ ~cap.missed
    /\ returned.chord = Some(cap.seen)

\* C6: the received set never holds both poles of an axis, nor both wheel
\* directions of an axis; once kbgp_pending_chord has processed a frame's
\* inputs, the set holds each of them that no opposite pole follows.
C6_PolesExclusive ==
    /\ NoOppositePoles(pending.received_input)
    /\ IsSome(returned.chord) => NoOppositePoles(Unwrap(returned.chord))
    /\ (/\ kbgp_state = "PendingInput"
        /\ cap.queried
        /\ WidgetVariant(pending.acceptor_id) = "kbgp_pending_chord")
       => \A k \in DOMAIN pending.input_this_frame :
             (\A j \in DOMAIN pending.input_this_frame :
                 j > k => pending.input_this_frame[j] \notin
                              OppositeOf(pending.input_this_frame[k]))
             => pending.input_this_frame[k] \in pending.received_input

\* C6's case: the negative pole was accepted after the positive pole.
C6_Witness ==
    /\ kbgp_state = "PendingInput"
    /\ cap.queried
    /\ GamepadAxisPositive(1, "RightStickX") \in cap.seen
    /\ pending.input_this_frame = <<GamepadAxisNegative(1, "RightStickX")>>
    /\ pending.received_input = {GamepadAxisNegative(1, "RightStickX")}

\* C7: an input pressed at the first kbgp_prepare of the capture and at every
\* one since is not in input_this_frame, not in the received set, and not in
\* what the capture returns.
C7_BaselineIgnored ==
    /\ kbgp_state = "PendingInput" =>
          cap.held \cap (Range(pending.input_this_frame) \cup pending.received_input) = {}
    /\ IsSome(returned.chord) => Unwrap(returned.chord) \cap cap.held = {}
    /\ IsSome(returned.input) => Unwrap(returned.input) \notin cap.held

\* C7's case: an input was received while an input of the baseline is held.
C7_Witness ==
    /\ kbgp_state = "PendingInput"
    /\ cap.held # {}
    /\ pending.received_input # {}

\* C8: in a capture by kbgp_pending_input the received set has at most one
\* input and the assertion holds; the set takes the first input of the first
\* frame that has one, keeps it, and it is the value returned.
C8_SingleInput ==
    [][(/\ kbgp_state = "PendingInput"
        /\ WidgetVariant(pending.acceptor_id) = "kbgp_pending_input"
        /\ AcceptorQuery)
       => /\ ~returned'.panic
          /\ Cardinality(pending'.received_input) <= 1
          /\ (pending.received_input = {} /\ Len(pending.input_this_frame) > 0)
                => pending'.received_input = {pending.input_this_frame[1]}
          /\ (pending.received_input # {} /\ kbgp_state' = "PendingInput")
                => pending'.received_input = pending.received_input
          /\ IsSome(returned'.input)
                => pending.received_input = {Unwrap(returned'.input)}]_vars

\* C8's case: an input was returned by a capture during which two were pressed.
C8_Witness ==
    /\ IsSome(returned.input)
    /\ Cardinality(cap.seen) >= 2
    /\ Unwrap(returned.input) \in cap.seen

\* C9: a kbgp_prepare that leaves the acceptor of the capture out of the
\* registry ends the capture.
C9_AbandonedWhenAcceptorEvicted ==
    [][(/\ IsPrepare
        /\ kbgp_state = "PendingInput"
        /\ pending.acceptor_id \notin DOMAIN nodes')
       => kbgp_state' = "Navigation"]_vars

C11_KeptByTheSecondPrepare ==
    [][(IsPrepare /\ drawn = NoDrawn) => DOMAIN nodes \subseteq DOMAIN nodes']_vars

\* The horizontal extents of two rectangles meet.
XOverlap(a, b) == a.min.x <= b.max.x /\ b.min.x <= a.max.x

\* The widgets of the registry are a column: their horizontal extents meet
\* pairwise and each is above or below every other one.
IsColumn(registry) ==
    \A a, b \in DOMAIN registry :
        a # b => /\ XOverlap(registry[a].rect, registry[b].rect)
                 /\ \/ registry[a].rect.max.y <= registry[b].rect.min.y
                    \/ registry[b].rect.max.y <= registry[a].rect.min.y

\* The widget nearest below f, and nearest above f, in the registry.
NearestBelow(registry, f) ==
    LET below == {id \in DOMAIN registry \ {f} :
                     registry[id].rect.min.y >= registry[f].rect.max.y}
    IN  IF below = {} THEN None
        ELSE Some(CHOOSE t \in below :
                     \A u \in below : registry[t].rect.min.y <= registry[u].rect.min.y)

NearestAbove(registry, f) ==
    LET above == {id \in DOMAIN registry \ {f} :
                     registry[id].rect.max.y <= registry[f].rect.min.y}
    IN  IF above = {} THEN None
        ELSE Some(CHOOSE t \in above :
                     \A u \in above : registry[t].rect.max.y >= registry[u].rect.max.y)

\* C12: in a column with widget f focused, Down moves the focus to the
\* nearest widget below f and Up to the nearest widget above f (to none when
\* there is none).
C12_ColumnNearest ==
    [][\A f \in DOMAIN nodes :
          (IsPrepare /\ IsColumn(nodes) /\ focused = Some(f))
          => /\ obs'.effective_input = {INPUT_MASK_DOWN}
                   => obs'.move_focus_to = NearestBelow(nodes, f)
             /\ obs'.effective_input = {INPUT_MASK_UP}
                   => obs'.move_focus_to = NearestAbove(nodes, f)]_vars

\* C12's case: widget 1 is the lowest of a column of three, and Up has moved
\* the focus from it to the middle one.
C12_Witness ==
    /\ DOMAIN nodes = {1, 2, 3}
    /\ IsColumn(nodes)
    /\ obs.effective_input = {INPUT_MASK_UP}
    /\ \E a, b \in {2, 3} :
          /\ nodes[a].rect.max.y <= nodes[b].rect.min.y
          /\ nodes[b].rect.max.y <= nodes[1].rect.min.y
          /\ obs.move_focus_to = Some(b)
          /\ focused = Some(b)

\* C13: with two widgets registered, side by side, Right from the left one
\* moves the focus to the right one and Left from the right one to the left
\* one, whatever the order in which the registry is iterated.
C13_SideBySide ==
    [][\A f, t \in ResolverIds :
          (/\ IsPrepare
           /\ f # t
           /\ DOMAIN nodes = {f, t}
           /\ focused = Some(f))
          => /\ (/\ obs'.effective_input = {INPUT_MASK_RIGHT}
                 /\ nodes[t].rect.min.x >= nodes[f].rect.max.x)
                => obs'.move_focus_to = Some(t)
             /\ (/\ obs'.effective_input = {INPUT_MASK_LEFT}
                 /\ nodes[f].rect.min.x >= nodes[t].rect.max.x)
                => obs'.move_focus_to = Some(t)]_vars

\* C13's case: Right has moved the focus from widget 1 to the widget on its right.
C13_Witness ==
    \E t \in ResolverIds \ {1} :
        /\ DOMAIN nodes = {1, t}
        /\ nodes[t].rect.min.x >= nodes[1].rect.max.x
        /\ obs.effective_input = {INPUT_MASK_RIGHT}
        /\ obs.move_focus_to = Some(t)
        /\ focused = Some(t)

\* C14: a direction resolves to no target when the registry is empty and no
\* widget is focused, and to the focused id itself when that id is not in the
\* registry.
C14_ResolutionNeverFails ==
    [][(IsPrepare /\ obs'.effective_input \cap Directions # {})
       => /\ (DOMAIN nodes = {} /\ focused = None) => obs'.move_focus_to = None
          /\ \A f \in ResolverIds :
                (focused = Some(f) /\ f \notin DOMAIN nodes) => obs'.move_focus_to = Some(f)]_vars

\* C14's case: a direction was resolved with the focus on widget 1, which is
\* not in the registry, while other widgets are.
C14_Witness ==
    /\ obs.effective_input \cap Directions # {}
    /\ DOMAIN nodes # {}
    /\ 1 \notin DOMAIN nodes
    /\ obs.move_focus_to = Some(1)
    /\ focused = Some(1)

\* <<a1, a2>> is not after <<b1, b2>> in the lexicographic order.
LexLeq(a1, a2, b1, b2) == a1 < b1 \/ (a1 = b1 /\ a2 <= b2)

\* C15: with no widget focused, Down moves the focus to a widget of smallest
\* (min.y, min.x), Up to one of largest (max.y, max.x), Right to one of
\* smallest (min.x, min.y), Left to one of largest (max.x, max.y).
C15_NothingFocused ==
    [][(IsPrepare /\ focused = None /\ DOMAIN nodes # {})
       => \E t \in DOMAIN nodes :
             /\ obs'.move_focus_to = Some(t)
             /\ \A u \in DOMAIN nodes :
                   /\ obs'.effective_input = {INPUT_MASK_DOWN}
                         => LexLeq(nodes[t].rect.min.y, nodes[t].rect.min.x,
                                   nodes[u].rect.min.y, nodes[u].rect.min.x)
                   /\ obs'.effective_input = {INPUT_MASK_UP}
                         => LexLeq(nodes[u].rect.max.y, nodes[u].rect.max.x,
                                   nodes[t].rect.max.y, nodes[t].rect.max.x)
                   /\ obs'.effective_input = {INPUT_MASK_RIGHT}
                         => LexLeq(nodes[t].rect.min.x, nodes[t].rect.min.y,
                                   nodes[u].rect.min.x, nodes[u].rect.min.y)
                   /\ obs'.effective_input = {INPUT_MASK_LEFT}
                         => LexLeq(nodes[u].rect.max.x, nodes[u].rect.max.y,
                                   nodes[t].rect.max.x, nodes[t].rect.max.y)]_vars

\* C15's case: Up has put the focus on a widget below widget 1, which it does
\* only when no widget was focused.
C15_Witness ==
    \E t \in DOMAIN nodes \ {1} :
        /\ 1 \in DOMAIN nodes
        /\ nodes[t].rect.min.y >= nodes[1].rect.max.y
        /\ obs.effective_input = {INPUT_MASK_UP}
        /\ obs.move_focus_to = Some(t)

\* C16: a label given to kbgp_set_focus_label is matched by a call of
\* kbgp_focus_label only when it was set during the previous frame, and the
\* label pending after a kbgp_prepare was set during the frame that prepare
\* ended (or is the initial-focus label): nothing older survives.
C16_LabelOfThePreviousFrame ==
    [][/\ \A id \in LabelIds, label \in FocusLabels :
            (KbgpFocusLabel(id, label) /\ nav' # nav) => label \in hist.prev_labels
       /\ (IsPrepare /\ IsSome(nav'.focus_label))
            => Unwrap(nav'.focus_label) \in hist.set_labels \cup {KbgpInitialFocusLabel}]_vars

\* C16's case: in the frame after the first kbgp_prepare a widget has matched
\* the label set before it.
C16_Witness ==
    /\ now = 1
    /\ kbgp_state = "Navigation"
    /\ hist.prev_labels = {<<"FocusLabel", "Left">>}
    /\ IsSome(nav.focus_on)
    /\ nav.focus_label = None

\* C17: at a kbgp_prepare the initial-focus label becomes the pending label
\* exactly when the registry is empty after the eviction and no label was set
\* during the frame that ends.
C17_InitialFocusWhenEmpty ==
    [][IsPrepare
       => (nav'.focus_label = Some(KbgpInitialFocusLabel)
           <=> (DOMAIN nodes' = {} /\ hist.set_labels = {}))]_vars

\* C19: a query for a type other than the stored payload's answers None, and
\* a widget declaring a label of another type than the pending label's
\* changes nothing.
C19_TypeMismatchIsNoMatch ==
    /\ [](\A type \in ActionTypes :
            /\ (IsSome(nav.user_action) /\ Unwrap(nav.user_action)[1] # type)
                 => kbgp_user_action(type) = None
            /\ (/\ nav.pending_release_state.kind \in {"NodeHoldReleased", "GlobalHoldReleased"}
                /\ IsSome(nav.pending_release_state.user_action)
                /\ Unwrap(nav.pending_release_state.user_action)[1] # type)
                 => kbgp_user_action_released(type) = None)
    /\ [][\A id \in LabelIds, label \in DeclaredLabels :
            (/\ KbgpFocusLabel(id, label)
             /\ IsSome(nav.focus_label)
             /\ Unwrap(nav.focus_label)[1] # label[1])
            => UNCHANGED vars]_vars

\* C19's case: a released user action of type KbgpActions is stored, the
\* query for MenuActions gives None while the query for KbgpActions gives
\* the action, and a label of type MenuLabel is pending.
C19_Witness ==
    /\ kbgp_user_action_released("KbgpActions") = Some("ActionZ")
    /\ kbgp_user_action_released("MenuActions") = None
    /\ nav.focus_label = Some(<<"MenuLabel", "Left">>)

\* C18: while a button of kbgp_pending_chord_same_source captures, all the
\* inputs of the received set have one source, and so have all the inputs of
\* the chord it returns.
C18_ChordOfOneSource ==
    /\ (kbgp_state = "PendingInput"
        /\ WidgetVariant(pending.acceptor_id) = "kbgp_pending_chord_same_source")
         => \A a, b \in pending.received_input : get_source(a) = get_source(b)
    /\ IsSome(returned.chord)
         => \A a, b \in Unwrap(returned.chord) : get_source(a) = get_source(b)

\* C18's case: the button has taken two inputs of one source into the
\* received set and left out an input of another source pressed in the same
\* frame.
C18_Witness ==
    /\ kbgp_state = "PendingInput"
    /\ WidgetVariant(pending.acceptor_id) = "kbgp_pending_chord_same_source"
    /\ cap.queried
    /\ Cardinality(pending.received_input) = 2
    /\ \E inp \in Range(pending.input_this_frame), got \in pending.received_input :
          get_source(inp) # get_source(got)

\* C20: whenever kbgp_prevent_loss_of_focus finds no widget focused after it
\* has seen one focused, it asks the focus back for the last widget it saw
\* focused.
C20_FocusAskedBack ==
    [][(KbgpPreventLossOfFocus /\ focused = None /\ IsSome(hist.had_focus))
       => focused' = hist.had_focus]_vars

\* C21: with the default settings and nothing pressed but Enter and Space,
\* kbgp_prepare pushes no synthetic key event.
C21_NoSyntheticActivation == events = <<>>

\* C22: at a kbgp_prepare, a command bit asserted in the previous frame and
\* still asserted is effective exactly when the time has reached
\* next_navigation, and when it is effective next_navigation becomes the time
\* plus secs_between_inputs, whatever the other bits do.
C22_HeldBitRepeats ==
    [][(IsPrepare /\ kbgp_state = "Navigation")
       => \A bit \in nav.prev_input \cap nav'.prev_input :
             /\ bit \in obs'.effective_input <=> now' >= nav.next_navigation
             /\ bit \in obs'.effective_input
                   => nav'.next_navigation = now' + secs_between_inputs]_vars

\* C23: when the previous kbgp_prepare has moved the machine to Invalidated
\* and the Click and User bits asserted in it are asserted unchanged in this
\* kbgp_prepare, the machine stays Invalidated: it is Idle again only once
\* the input that invalidated it is released.
C23_InvalidatedUntilReleased ==
    [][(/\ IsPrepare
        /\ kbgp_state = "Navigation"
        /\ nav.pending_release_state = Invalidated(FALSE)
        /\ obs.before.kind \notin {"Idle", "Invalidated"}
        /\ ActivationBits(nav.prev_input) # {}
        /\ ActivationBits(nav'.prev_input) = ActivationBits(nav.prev_input))
       => nav'.pending_release_state.kind = "Invalidated"]_vars

\* C24: a kbgp_prepare leaves the machine in NodeHoldReleased without a
\* payload, the state in which kbgp_click_released is true, only when it
\* found it in NodeHeld with is_user_action false.
C24_ClickReleasedOnlyForClick ==
    [][(IsPrepare /\ \E id \in NodeIds : kbgp_click_released(id)')
       => /\ nav.pending_release_state.kind = "NodeHeld"
          /\ ~nav.pending_release_state.is_user_action]_vars

\* C25: a kbgp_prepare that finds the machine Idle leaves it Idle when
\* neither Click nor User is asserted; in NodeHeld on the focused widget, with
\* the class recorded, when exactly one is asserted and a widget has the
\* focus; in GloballyHeld for User without a focused widget; Invalidated for
\* Click without a focused widget and for both asserted.
C25_FromIdle ==
    [][(IsPrepare /\ kbgp_state = "Navigation" /\ nav.pending_release_state.kind = "Idle")
       => /\ ActivationBits(nav'.prev_input) = {}
               => nav'.pending_release_state.kind = "Idle"
          /\ (Cardinality(ActivationBits(nav'.prev_input)) = 1 /\ IsSome(focused'))
               => /\ nav'.pending_release_state.kind = "NodeHeld"
                  /\ nav'.pending_release_state.id = Unwrap(focused')
                  /\ nav'.pending_release_state.is_user_action
                        <=> INPUT_MASK_USER_ACTION \in nav'.prev_input
          /\ (ActivationBits(nav'.prev_input) = {INPUT_MASK_USER_ACTION} /\ focused' = None)
               => nav'.pending_release_state.kind = "GloballyHeld"
          /\ (ActivationBits(nav'.prev_input) = {INPUT_MASK_CLICK} /\ focused' = None)
               => nav'.pending_release_state = Invalidated(FALSE)
          /\ Cardinality(ActivationBits(nav'.prev_input)) = 2
               => nav'.pending_release_state = Invalidated(FALSE)]_vars

\* C25's case: from Idle a user action pressed without a focused widget is
\* held globally.
C25_Witness ==
    /\ obs.before.kind = "Idle"
    /\ nav.prev_input = {INPUT_MASK_USER_ACTION}
    /\ focused = None
    /\ nav.pending_release_state.kind = "GloballyHeld"

\* C26: a kbgp_prepare that finds the machine in NodeHoldReleased or in
\* GlobalHoldReleased leaves it Idle, whatever the input, and after it no
\* released query reports anything.
C26_ReleasedForOneFrame ==
    [][(/\ IsPrepare
        /\ kbgp_state = "Navigation"
        /\ nav.pending_release_state.kind \in {"NodeHoldReleased", "GlobalHoldReleased"})
       => /\ nav'.pending_release_state = Idle
          /\ \A id \in NodeIds : ~kbgp_click_released(id)'
          /\ \A type \in ActionTypes : kbgp_user_action_released(type)' = None]_vars

\* C26's case: the kbgp_prepare after a global release has left the machine
\* Idle although an activation input is asserted in it.
C26_Witness ==
    /\ obs.before.kind = "GlobalHoldReleased"
    /\ ActivationBits(nav.prev_input) # {}
    /\ nav.pending_release_state = Idle

\* C27: a kbgp_prepare that finds the machine in GloballyHeld with neither
\* Click nor User asserted moves it to GlobalHoldReleased with the payload of
\* the action.
C27_GlobalHoldReleased ==
    [][(/\ IsPrepare
        /\ kbgp_state = "Navigation"
        /\ nav.pending_release_state.kind = "GloballyHeld"
        /\ ActivationBits(nav'.prev_input) = {})
       => /\ nav'.pending_release_state.kind = "GlobalHoldReleased"
          /\ IsSome(nav'.pending_release_state.user_action)]_vars

\* C28: a kbgp_prepare that finds a user-action hold on a widget, the focus
\* on that widget all along, and neither Click nor User asserted, makes the
\* widget's kbgp_user_action_released return the action bound to the key.
C28_ReleasedCarriesTheAction ==
    [][(/\ IsPrepare
        /\ kbgp_state = "Navigation"
        /\ nav.pending_release_state.kind = "NodeHeld"
        /\ nav.pending_release_state.is_user_action
        /\ ~hist.away
        /\ focused' = Some(nav.pending_release_state.id)
        /\ ActivationBits(nav'.prev_input) = {})
       => Response_kbgp_user_action_released(nav.pending_release_state.id, "KbgpActions")'
             = Some("ActionZ")]_vars

\* C29: in Navigation state kbgp_user_action returns a value exactly when
\* the User bit was effective in the last kbgp_prepare and kbgp_clear_input
\* (which alone sets cooldown_frame) was not called since.
C29_UserActionOfThisFrame ==
    kbgp_state = "Navigation"
    => (IsSome(kbgp_user_action("KbgpActions"))
        <=> (/\ INPUT_MASK_USER_ACTION \in obs.effective_input
             /\ ~nav.pending_release_state.cooldown_frame))

\* C29's case: the user action is reported again on a repeat pulse of the
\* held key.
C29_Witness ==
    /\ kbgp_user_action("KbgpActions") = Some("ActionZ")
    /\ nav.prev_input = {INPUT_MASK_USER_ACTION}
    /\ hist.pulses = 2

\* C30: with the focus on a registered widget f, a direction gives no target
\* or a registered widget other than f that starts, in that direction, not
\* before the end of f: below f's bottom for Down, above its top for Up,
\* right of its right edge for Right, left of its left edge for Left.  With
\* no widget focused the target is a registered widget too.
C30_TargetBeyondTheFocused ==
    [][IsPrepare
       => /\ (IsSome(focused) /\ Unwrap(focused) \in DOMAIN nodes)
               => \/ obs'.move_focus_to = None
                  \/ \E t \in DOMAIN nodes \ {Unwrap(focused)} :
                        /\ obs'.move_focus_to = Some(t)
                        /\ obs'.effective_input = {INPUT_MASK_DOWN}
                              => nodes[t].rect.min.y >= nodes[Unwrap(focused)].rect.max.y
                        /\ obs'.effective_input = {INPUT_MASK_UP}
                              => nodes[t].rect.max.y <= nodes[Unwrap(focused)].rect.min.y
                        /\ obs'.effective_input = {INPUT_MASK_RIGHT}
                              => nodes[t].rect.min.x >= nodes[Unwrap(focused)].rect.max.x
                        /\ obs'.effective_input = {INPUT_MASK_LEFT}
                              => nodes[t].rect.max.x <= nodes[Unwrap(focused)].rect.min.x
          /\ (focused = None /\ IsSome(obs'.move_focus_to))
               => Unwrap(obs'.move_focus_to) \in DOMAIN nodes]_vars

\* C30's case: Left has moved the focus to a widget that ends left of widget
\* 1, which it does only from widget 1: with no widget focused Left goes to
\* a widget with the largest right edge.
C30_Witness ==
    \E t \in DOMAIN nodes \ {1} :
        /\ 1 \in DOMAIN nodes
        /\ obs.effective_input = {INPUT_MASK_LEFT}
        /\ obs.move_focus_to = Some(t)
        /\ nodes[t].rect.max.x <= nodes[1].rect.min.x

\* The candidates move_focus keeps for a move from the registered widget f in
\* the direction dir, each with its InfoForComparison.
Candidates(registry, f, dir) ==
    LET focused_node_rect == transform_rect_downward(dir, registry[f].rect)
        keep == {id \in DOMAIN registry \ {f} :
                    ~(transform_rect_downward(dir, registry[id].rect).min.y
                        - focused_node_rect.max.y < 0)}
    IN  [id \in keep |->
            InfoForComparison(focused_node_rect,
                              transform_rect_downward(dir, registry[id].rect))]

\* The distance between the nearest vertical edges of two rectangles, 0 when
\* their horizontal extents meet.
HorizontalGap(a, b) ==
    IF a.max.x < b.min.x THEN b.min.x - a.max.x
    ELSE IF b.max.x < a.min.x THEN a.min.x - b.max.x
    ELSE 0

\* C31: the x_drift of every candidate of a resolved move is 0 when its
\* horizontal extent meets that of the focused widget and otherwise the
\* distance between the nearest vertical edges of the two rectangles (in the
\* coordinates of the move, where the direction points down).
C31_DriftIsTheGap ==
    [][\A dir \in Directions :
          (/\ IsPrepare
           /\ focused = Some(1)
           /\ 1 \in DOMAIN nodes
           /\ obs'.effective_input = {dir})
          => \A id \in DOMAIN Candidates(nodes, 1, dir) :
                Candidates(nodes, 1, dir)[id].x_drift
                  = HorizontalGap(transform_rect_downward(dir, nodes[1].rect),
                                  transform_rect_downward(dir, nodes[id].rect))]_vars

\* The vertical spans of two candidates have no point in common.
SpansApart(a, b) == a.max_y < b.min_y \/ b.max_y < a.min_y

\* C32: of two candidates whose vertical spans do not overlap at all the one
\* with the smaller x_drift becomes the target, whatever their min_y; of two
\* whose spans overlap, the one with the smaller min_y + x_drift.
C32_ApartByDriftAlone ==
    [][\A dir \in Directions :
          (/\ IsPrepare
           /\ focused = Some(1)
           /\ 1 \in DOMAIN nodes
           /\ obs'.effective_input = {dir})
          => LET c == Candidates(nodes, 1, dir)
             IN  \A a, b \in DOMAIN c :
                    (DOMAIN c = {a, b} /\ a # b)
                    => /\ (SpansApart(c[a], c[b]) /\ c[a].x_drift < c[b].x_drift)
                            => obs'.move_focus_to = Some(a)
                       /\ (/\ ~SpansApart(c[a], c[b])
                           /\ c[a].min_y + c[a].x_drift < c[b].min_y + c[b].x_drift)
                            => obs'.move_focus_to = Some(a)]_vars

\* C33: the target of a move from the focused widget is a candidate whose
\* min_y + x_drift is the least: no candidate has a smaller sum.
C33_LeastSum ==
    [][\A dir \in Directions :
          (/\ IsPrepare
           /\ focused = Some(1)
           /\ 1 \in DOMAIN nodes
           /\ obs'.effective_input = {dir})
          => LET c == Candidates(nodes, 1, dir)
             IN  IF DOMAIN c = {}
                 THEN obs'.move_focus_to = None
                 ELSE \E t \in DOMAIN c :
                         /\ obs'.move_focus_to = Some(t)
                         /\ \A id \in DOMAIN c :
                               c[t].min_y + c[t].x_drift <= c[id].min_y + c[id].x_drift]_vars

\* C33's case: a move from widget 1 has chosen between two candidates whose
\* spans are apart, and the target is the one with the smaller sum although
\* the other has the smaller x_drift.
C33_Witness ==
    \E dir \in Directions, t, other \in {2, 3} :
        /\ DOMAIN nodes = {1, 2, 3}
        /\ obs.effective_input = {dir}
        /\ obs.move_focus_to = Some(t)
        /\ focused = Some(t)
        /\ LET c == Candidates(nodes, 1, dir)
           IN  /\ DOMAIN c = {2, 3}
               /\ SpansApart(c[t], c[other])
               /\ c[other].x_drift < c[t].x_drift
               /\ c[t].min_y + c[t].x_drift < c[other].min_y + c[other].x_drift

\* The targets move_focus can give for one direction, over the orders in
\* which the registry may be iterated.
Targets(registry, ctx_focused, move_from, dir) ==
    {move_focus(registry, order, ctx_focused, move_from, dir) :
        order \in IterationOrders(DOMAIN registry)}

\* C34: in a frame where Up and Down are both effective no move is made
\* along the vertical axis, and none along the horizontal axis where Left
\* and Right are both effective: the target is that of the other axis alone,
\* and there is none when the other axis has no single direction.
C34_OppositesCancel ==
    [][IsPrepare
       => LET e == obs'.effective_input
              v == e \cap INPUT_MASK_VERTICAL
              h == e \cap INPUT_MASK_HORIZONTAL
          IN  /\ (v = INPUT_MASK_VERTICAL /\ h \in {{}, INPUT_MASK_HORIZONTAL})
                    => /\ obs'.move_focus_to = None
                       /\ focused' = focused
              /\ (h = INPUT_MASK_HORIZONTAL /\ v \in {{}, INPUT_MASK_VERTICAL})
                    => /\ obs'.move_focus_to = None
                       /\ focused' = focused
              /\ \A dir \in Directions :
                    (\/ (v = INPUT_MASK_VERTICAL /\ h = {dir})
                     \/ (h = INPUT_MASK_HORIZONTAL /\ v = {dir}))
                    => obs'.move_focus_to \in Targets(nodes, focused, None, dir)]_vars

\* C34's case: Up and Down were effective together with a widget below the
\* focused one, which Down alone would have reached, and the focus stayed.
C34_Witness ==
    /\ obs.effective_input = INPUT_MASK_VERTICAL
    /\ 1 \in DOMAIN nodes
    /\ DOMAIN Candidates(nodes, 1, INPUT_MASK_DOWN) # {}
    /\ obs.move_focus_to = None
    /\ focused = Some(1)

\* C35: when one vertical and one horizontal direction are effective in the
\* same frame, the horizontal step is resolved from the target of the
\* vertical step, and when the horizontal step finds no candidate there the
\* focus still moves to the target of the vertical step.
C35_DiagonalKeepsVertical ==
    [][\A vd \in INPUT_MASK_VERTICAL, hd \in INPUT_MASK_HORIZONTAL :
          (IsPrepare /\ obs'.effective_input = {vd, hd})
          => /\ obs'.move_focus_to
                   \in UNION {Targets(nodes, focused, vt, hd) :
                                 vt \in Targets(nodes, focused, None, vd)}
             /\ \A v \in DOMAIN nodes :
                   (/\ Targets(nodes, focused, None, vd) = {Some(v)}
                    /\ DOMAIN Candidates(nodes, v, hd) = {})
                   => /\ obs'.move_focus_to = Some(v)
                      /\ focused' = Some(v)]_vars

C37_IgnoredOnlyShrinks ==
    [][(kbgp_state = "PendingInput" /\ IsSome(pending.ignored_input) /\ kbgp_state' = "PendingInput")
       => /\ \A pressed \in SUBSET RebindInputs :
                KbgpPrepare(DefaultSettings, pressed, 1)
                => /\ pending'.ignored_input = Some(Unwrap(pending.ignored_input) \cap pressed)
                   /\ \A i \in pressed \ Unwrap(pending.ignored_input) :
                         i \in Range(pending'.input_this_frame)
          /\ IsSome(pending'.ignored_input)
          /\ Unwrap(pending'.ignored_input) \subseteq Unwrap(pending.ignored_input)
          /\ ~IsPrepare => pending'.ignored_input = pending.ignored_input]_vars

\* C37's case: a capture has returned ArrowDown.  ArrowDown is in the
\* baseline of every capture here, so it was released, pressed again and
\* received.
C37_Witness ==
    \/ returned.input = Some(Keyboard("ArrowDown"))
    \/ (IsSome(returned.chord) /\ Keyboard("ArrowDown") \in Unwrap(returned.chord))

\* C38: a capture starts only by kbgp_pending_input of a widget that is
\* clicked while the state is Navigation, and that widget is its acceptor for
\* as long as the state stays PendingInput; meanwhile the call of any other
\* widget, clicked or not, returns None and leaves the state, the capture and
\* the focus as they are.
C38_OneCaptureOneAcceptor ==
    [][/\ (kbgp_state = "Navigation" /\ kbgp_state' = "PendingInput")
            => \E id \in RebindIds :
                  /\ KbgpPendingInputRecorded(id, TRUE)
                  /\ pending' = NewPendingInputState(id)
       /\ \A id \in RebindIds :
            (kbgp_state = "Navigation" /\ KbgpPendingInputRecorded(id, FALSE))
            => kbgp_state' = "Navigation"
       /\ (kbgp_state = "PendingInput" /\ kbgp_state' = "PendingInput")
            => pending'.acceptor_id = pending.acceptor_id
       /\ \A id \in RebindIds, clicked \in BOOLEAN :
            (/\ kbgp_state = "PendingInput"
             /\ id # pending.acceptor_id
             /\ KbgpPendingInputRecorded(id, clicked))
            => /\ returned' = ReturnedNone
               /\ UNCHANGED <<kbgp_state, pending, nav, focused>>]_vars

\* C38's case: in a capture by widget 2 that has taken its baseline and has
\* inputs to offer, widget 1 was clicked and asked, and the capture is still
\* that of widget 2.
C38_Witness ==
    /\ kbgp_state = "PendingInput"
    /\ hist.refused
    /\ pending.acceptor_id = 2
    /\ IsSome(pending.ignored_input)
    /\ Len(pending.input_this_frame) > 0

\* C39: while the state is PendingInput, kbgp_prepare moves no focus and
\* leaves no activation event whatever is pressed, kbgp_user_action and
\* kbgp_user_action_released return None for every type, and
\* kbgp_set_focus_label and kbgp_clear_input leave the state of KBGP (the
\* state enum, the navigation state, the capture and the registry) unchanged.
C39_NavigationInert ==
    [][kbgp_state = "PendingInput"
       => /\ IsPrepare
               => /\ focused' = focused
                  /\ events' = <<>>
                  /\ obs'.effective_input = {}
                  /\ obs'.move_focus_to = None
          /\ \A type \in ActionTypes :
               /\ kbgp_user_action(type) = None
               /\ kbgp_user_action_released(type) = None
          /\ KbgpClearInput => UNCHANGED <<kbgp_state, nav, pending, nodes>>
          /\ KbgpSetFocusLabel(<<"FocusLabel", "Left">>)
               => UNCHANGED <<kbgp_state, nav, pending, nodes>>]_vars

\* C39's case: during a capture a kbgp_prepare has seen the direction, the
\* activation key and the key of the user action pressed, none of them in the
\* baseline, a label was set in the frame, and the navigation state is still
\* the default one with no event left and no focus moved.
C39_Witness ==
    /\ kbgp_state = "PendingInput"
    /\ Range(pending.input_this_frame) = InertInputs
    /\ hist.set_labels # {}
    /\ DOMAIN nodes = {1, 2}
    /\ nav = DefaultNavigationState
    /\ events = <<>>
    /\ focused = None

\* C40: ArrowDown, held from the baseline of a capture until after the
\* capture has returned its input, gives no Down pulse at the first
\* kbgp_prepare after the capture: the effective input of that frame has no
\* Down bit and no move is resolved.
C40_HeldThroughCaptureIsSilent ==
    [][\A pressed \in SUBSET RebindInputs :
          (/\ kbgp_state = "Navigation"
           /\ Keyboard("ArrowDown") \in cap.held \cap pressed
           /\ KbgpPrepare(DefaultSettings, pressed, 1))
          => /\ INPUT_MASK_DOWN \notin obs'.effective_input
             /\ obs'.move_focus_to = None]_vars

====
